---- MODULE Spec2Model ----
(***************************************************************************)
(* Model of the three-phase photo extraction pipeline of                   *)
(* src/extract_photos/extract.py: get_video_metadata, transcode_lowres,    *)
(* scan_for_photos, extract_fullres_frames and their driver                *)
(* extract_photos_from_video.                                              *)
(*                                                                         *)
(* Conventions.  A Python value that may be None is a sequence of length   *)
(* 0 (None) or 1 (the value).  A perceptual hash (an 8x8 boolean matrix)   *)
(* is the set of its true bit positions, a subset of 1..64.  A float is an *)
(* exact rational <<numerator, denominator>>.  A Python str is a sequence  *)
(* of one-character strings.  Local variables of a function hold their     *)
(* initial value outside the function's activation.                        *)
(***************************************************************************)
EXTENDS Integers, Sequences, FiniteSets, TLC

(***************************************************************************)
(* Program constants.                                                      *)
(***************************************************************************)
HASH_SIZE == 8
HASH_DIFF_THRESHOLD == 10
HASH_STEP_THRESHOLD == 3

(***************************************************************************)
(* Bounds of the model.                                                    *)
(***************************************************************************)
\* largest CAP_PROP_FRAME_COUNT of a low-resolution file
MaxFrames == 5
\* number of progress lines one encoder prints
MaxProgressLines == 1

None == <<>>
Some(v) == <<v>>

HashBits == 1..(HASH_SIZE * HASH_SIZE)

\* The hashes of the sampled photo frames: the bit sets 1..k for k = 0, 3,
\* 6, 9, 12.  Two of them differ in |k - j| bits, which puts distances on
\* both sides of both thresholds and lets a photo drift by steps of 3 bits
\* to 12 bits from where it was recorded.
HashPalette == { 1..(HASH_STEP_THRESHOLD * k) : k \in 0..4 }

\* A sampled low-resolution frame, as the scan sees it: the results of
\* detect_almost_uniform_borders and _is_near_uniform (evaluated only when
\* the first is true) and of compute_frame_hash.
PhotoFrames == { [borders |-> TRUE, near_uniform |-> FALSE, hash |-> h] : h \in HashPalette }
VideoFrames ==
    { [borders |-> FALSE, near_uniform |-> FALSE, hash |-> {}],
      [borders |-> TRUE, near_uniform |-> TRUE, hash |-> {}] }
Frames == PhotoFrames \cup VideoFrames

\* lowres_fps as reported by the capture (0 when the property is unknown)
FpsValues == { <<0, 1>>, <<2, 1>>, <<30, 1>> }
\* step_time, the parameter of extract_photos_from_video (> 0)
StepTimes == { <<1, 100>>, <<1, 1>> }

\* The temporary files of the pipeline.
TempFiles == { "tmp1", "tmp2", "concat_out", "filelist", "tmp_frame" }

(***************************************************************************)
(* Pure functions.                                                         *)
(***************************************************************************)

\* hash_difference counting only the positions set in the first matrix
hash_difference_one_sided(hash1, hash2) ==
    Cardinality(hash1 \ hash2)

\* hash_difference: number of positions where the two matrices differ
hash_difference(hash1, hash2) ==
    Cardinality((hash1 \ hash2) \cup (hash2 \ hash1))

\* int(x) of a non-negative rational
IntOf(q) == q[1] \div q[2]

\* frame_step = round(lowres_fps * step_time), at least 1
FrameStepRounded(lowres_fps, st) ==
    LET num == lowres_fps[1] * st[1]
        den == lowres_fps[2] * st[2]
        q == num \div den
        r == num % den
        raw == IF 2 * r > den \/ (2 * r = den /\ q % 2 = 1) THEN q + 1 ELSE q
    IN  IF raw < 1 THEN 1 ELSE raw

\* frame_step without the test frame_step < 1
FrameStepUnclamped(lowres_fps, st) ==
    (lowres_fps[1] * st[1]) \div (lowres_fps[2] * st[2])

\* frame_step = int(lowres_fps * step_time); if frame_step < 1: frame_step = 1
FrameStep(lowres_fps, st) ==
    LET raw == IntOf(<<lowres_fps[1] * st[1], lowres_fps[2] * st[2]>>)
    IN  IF raw < 1 THEN 1 ELSE raw

\* timestamp_sec = current_frame / lowres_fps if lowres_fps > 0 else 0
TimestampSec(current_frame, lowres_fps) ==
    IF lowres_fps[1] > 0
    THEN <<current_frame * lowres_fps[2], lowres_fps[1]>>
    ELSE <<0, 1>>

\* str(n) of a natural number, as a sequence of characters
DigitChar(d) == <<"0", "1", "2", "3", "4", "5", "6", "7", "8", "9">>[d + 1]

RECURSIVE IntStr(_)
IntStr(n) ==
    IF n < 10 THEN <<DigitChar(n)>>
    ELSE IntStr(n \div 10) \o <<DigitChar(n % 10)>>

\* f"{n:02d}"
Pad2(n) == IF n < 10 THEN <<"0">> \o IntStr(n) ELSE IntStr(n)

\* the time label with tenths = round((timestamp_sec - total_seconds) * 10)
TimeStrRounded(timestamp_sec) ==
    LET total_seconds == timestamp_sec[1] \div timestamp_sec[2]
        num == (timestamp_sec[1] - total_seconds * timestamp_sec[2]) * 10
        tenths == (2 * num + timestamp_sec[2]) \div (2 * timestamp_sec[2])
        minutes == total_seconds \div 60
        seconds == total_seconds % 60
    IN  IF tenths > 0
        THEN IntStr(minutes) \o <<"m">> \o Pad2(seconds) \o <<".">> \o IntStr(tenths) \o <<"s">>
        ELSE IntStr(minutes) \o <<"m">> \o Pad2(seconds) \o <<"s">>

\* the time label of a timestamp
TimeStr(timestamp_sec) ==
    LET total_seconds == IntOf(timestamp_sec)
        \* int((timestamp_sec - total_seconds) * 10)
        tenths == IntOf(<<(timestamp_sec[1] - total_seconds * timestamp_sec[2]) * 10,
                          timestamp_sec[2]>>)
        minutes == total_seconds \div 60
        seconds == total_seconds % 60
    IN  IF tenths > 0
        THEN IntStr(minutes) \o <<"m">> \o Pad2(seconds) \o <<".">> \o IntStr(tenths) \o <<"s">>
        ELSE IntStr(minutes) \o <<"m">> \o Pad2(seconds) \o <<"s">>

\* a <= b for rationals with positive denominators
RatLeq(a, b) == a[1] * b[2] <= b[1] * a[2]

\* the test without the near-uniform check
IsPhotoFrameBordersOnly(frame) == frame.borders

\* the frame is a photo frame
IsPhotoFrame(frame) == frame.borders /\ ~frame.near_uniform

\* step_changed with the comparison >= in place of >
StepChangedAtThreshold(frame_hash, prev_step) ==
    /\ prev_step # <<>>
    /\ hash_difference(frame_hash, prev_step[1]) >= HASH_STEP_THRESHOLD

\* step_changed
StepChanged(frame_hash, prev_step) ==
    /\ prev_step # None
    /\ hash_difference(frame_hash, prev_step[1]) > HASH_STEP_THRESHOLD

\* is_new_photo without the comparison against prev_photo_hash
IsNewPhotoNoDrift(frame_hash, prev_photo, prev_step) ==
    \/ prev_photo = <<>>
    \/ StepChanged(frame_hash, prev_step)

\* is_new_photo
IsNewPhoto(frame_hash, prev_photo, prev_step) ==
    \/ prev_photo = None
    \/ StepChanged(frame_hash, prev_step)
    \/ hash_difference(frame_hash, prev_photo[1]) > HASH_DIFF_THRESHOLD


\* the decision with an else branch that resets prev_step_hash only
ScanFrameKeepPhotoHash(frame, prev_photo, prev_step) ==
    IF IsPhotoFrame(frame)
    THEN LET is_new_photo == IsNewPhoto(frame.hash, prev_photo, prev_step)
         IN  [append |-> is_new_photo,
              photo  |-> IF is_new_photo THEN Some(frame.hash) ELSE prev_photo,
              step   |-> Some(frame.hash)]
    ELSE [append |-> FALSE, photo |-> prev_photo, step |-> None]

\* the decision with an else branch that resets prev_photo_hash only
ScanFrameKeepStepHash(frame, prev_photo, prev_step) ==
    IF frame.borders /\ ~frame.near_uniform
    THEN LET is_new_photo == IsNewPhoto(frame.hash, prev_photo, prev_step)
         IN  [append |-> is_new_photo,
              photo  |-> IF is_new_photo THEN Some(frame.hash) ELSE prev_photo,
              step   |-> Some(frame.hash)]
    ELSE [append |-> FALSE, photo |-> None, step |-> prev_step]

\* One iteration's decision on a sampled frame (the if/else on the frame):
\* whether a candidate is appended, and the two hashes afterwards.
ScanFrame(frame, prev_photo, prev_step) ==
    IF IsPhotoFrame(frame)
    THEN LET is_new_photo == IsNewPhoto(frame.hash, prev_photo, prev_step)
         IN  [append |-> is_new_photo,
              photo  |-> IF is_new_photo THEN Some(frame.hash) ELSE prev_photo,
              step   |-> Some(frame.hash)]
    ELSE [append |-> FALSE, photo |-> None, step |-> None]

\* photo_timestamps.insert(0, ...) in place of append
PrependCandidate(list, cand) == <<cand>> \o list

\* photo_timestamps.append((timestamp_sec, time_str))
AppendCandidate(list, cand) == Append(list, cand)

\* cap.set(cv2.CAP_PROP_POS_FRAMES, current_frame + frame_step)
NextPos(current_frame, step) == current_frame + step

\* file_name = f"{filename_safe}_{time_str}.jpg", filename_safe being the
\* sanitized stem of the video's file name
FilenameSafe == <<"v", "i", "d">>
FileName(time_str) == FilenameSafe \o <<"_">> \o time_str \o <<".", "j", "p", "g">>

(***************************************************************************)
(* State.                                                                  *)
(***************************************************************************)
VARIABLES
    pc,               \* position of the calling thread
    step_time,        \* parameter of extract_photos_from_video
    exc,              \* the exception in flight or raised to the caller, or None
    files,            \* temporary files that exist on disk
    created,          \* history: temporary files ever created
    probe_runs,       \* history: number of ffprobe invocations
    encodes_started,  \* history: number of half-encode processes started
    concat_runs,      \* history: number of concat invocations
    phases,           \* history: calls and returns of the three phases
    \* transcode_lowres
    proc,             \* the two encoder processes: "none", "running", "exit0", "exit1"
    listener,         \* the two listener threads: "none", "alive", "ended"
    progress,         \* the shared progress list
    lines,            \* progress lines each encoder has printed so far
    overall_pct,      \* last percentage the polling loop displayed
    \* scan_for_photos
    lowres_fps, frame_step, total_frames,
    pos,              \* CAP_PROP_POS_FRAMES of the capture
    prev_photo_hash, prev_step_hash,
    photo_timestamps, \* the candidate list (also the driver's variable)
    sampled,          \* history: the frames read so far
    cand_at,          \* history: indexes into sampled where a candidate was appended
    \* extract_fullres_frames
    idx,              \* number of candidates the loop has taken
    tmp_content,      \* what tmp_frame holds: None (no readable image) or the
                      \* index of the candidate whose frame it is
    saved_count,
    log,              \* the per-candidate lines of the extraction log, in order
    written,          \* history: the file names passed to cv2.imwrite, in order
    output_files,     \* image files that exist in the output folder
    \* summary of extract_photos_from_video
    candidates, saved, skipped

tl_vars == <<proc, listener, progress, lines, overall_pct>>
scan_vars == <<lowres_fps, frame_step, total_frames, pos, prev_photo_hash,
               prev_step_hash, sampled, cand_at>>
extract_vars == <<idx, tmp_content, saved_count, log, written, output_files>>
hist_vars == <<created, probe_runs, encodes_started, concat_runs, phases>>
sum_vars == <<candidates, saved, skipped>>
vars == <<pc, step_time, exc, files, hist_vars, tl_vars, scan_vars,
          photo_timestamps, extract_vars, sum_vars>>

(***************************************************************************)
(* State of the entry points and functions outside the pipeline: each      *)
(* group holds the arguments, locals and result of one function.           *)
(***************************************************************************)
VARIABLES
    \* process_videos_in_directory
    bp_pc,            \* position in the function
    bp_listing,       \* os.listdir(input_directory)
    bp_video_files,   \* the list video_files
    bp_i,             \* number of iterations of the second loop completed
    bp_subdirs,       \* output subdirectories that exist
    bp_runs,          \* history: file names passed to extract_photos_from_video
    bp_exc,           \* the exception raised to the caller, or None
    \* _rejection_reason and _is_screenshot
    rr_image, rr_min_area,
    rr_reason,        \* None before the call, Some(return value) after it
    rr_shot,          \* the same for a direct call of _is_screenshot
    \* _find_text_gap_from_edge
    tg_density, tg_min_gap, tg_result,
    \* trim_and_add_border
    tb_image, tb_border_px, tb_include_text, tb_result,
    \* detect_almost_uniform_borders
    ub_frame, ub_result,
    \* hash_difference
    hd_hash1, hd_hash2, hd_result,
    \* poll_for_assets
    pa_pc, pa_expected, pa_timeout,
    pa_clock,         \* time.monotonic()
    pa_deadline, pa_prev_count, pa_stable_polls,
    pa_assets,        \* the list assets, as its length (None before the first poll)
    pa_counts,        \* history: the lengths the polls returned
    pa_sleeps,        \* history: number of time.sleep(5) calls
    pa_exc,
    \* immich_request
    ir_pc, ir_retries, ir_attempt, ir_last_error,
    ir_waits,         \* history: the arguments of time.sleep
    ir_calls,         \* history: the outcome of each urlopen call, in order
    ir_result,        \* None while running, then what the call returned or raised
    \* the loop of scan_for_photos on positions and time labels, order_assets
    tm_pc, tm_fps, tm_step_time, tm_total_frames, tm_frame_step, tm_pos,
    tm_cands,         \* photo_timestamps, with the frame index of each entry
    tm_ordered        \* None, or what order_assets returned, each path with its sort key

bp_vars == <<bp_pc, bp_listing, bp_video_files, bp_i, bp_subdirs, bp_runs, bp_exc>>
rr_vars == <<rr_image, rr_min_area, rr_reason, rr_shot>>
tg_vars == <<tg_density, tg_min_gap, tg_result>>
tb_vars == <<tb_image, tb_border_px, tb_include_text, tb_result>>
ub_vars == <<ub_frame, ub_result>>
hd_vars == <<hd_hash1, hd_hash2, hd_result>>
pa_vars == <<pa_pc, pa_expected, pa_timeout, pa_clock, pa_deadline, pa_prev_count,
             pa_stable_polls, pa_assets, pa_counts, pa_sleeps, pa_exc>>
ir_vars == <<ir_pc, ir_retries, ir_attempt, ir_last_error, ir_waits, ir_calls,
             ir_result>>
tm_vars == <<tm_pc, tm_fps, tm_step_time, tm_total_frames, tm_frame_step, tm_pos,
             tm_cands, tm_ordered>>
aux_vars == <<bp_vars, rr_vars, tg_vars, tb_vars, ub_vars, hd_vars, pa_vars, ir_vars,
              tm_vars>>

\* The state of a group whose function is not running.
BpIdle ==
    /\ bp_pc = "idle"
    /\ bp_listing = <<>>
    /\ bp_video_files = <<>>
    /\ bp_i = 0
    /\ bp_subdirs = {}
    /\ bp_runs = <<>>
    /\ bp_exc = None
RrIdle == rr_image = None /\ rr_min_area = 0 /\ rr_reason = None /\ rr_shot = None
TgIdle == tg_density = <<>> /\ tg_min_gap = 0 /\ tg_result = None
TbIdle == tb_image = None /\ tb_border_px = 0 /\ tb_include_text = TRUE /\ tb_result = None
UbIdle == ub_frame = None /\ ub_result = None
HdIdle == hd_hash1 = {} /\ hd_hash2 = {} /\ hd_result = None
PaIdle ==
    /\ pa_pc = "idle"
    /\ pa_expected = 0
    /\ pa_timeout = 0
    /\ pa_clock = 0
    /\ pa_deadline = 0
    /\ pa_prev_count = 0
    /\ pa_stable_polls = 0
    /\ pa_assets = None
    /\ pa_counts = <<>>
    /\ pa_sleeps = 0
    /\ pa_exc = None
IrIdle ==
    /\ ir_pc = "idle"
    /\ ir_retries = 0
    /\ ir_attempt = 0
    /\ ir_last_error = None
    /\ ir_waits = <<>>
    /\ ir_calls = <<>>
    /\ ir_result = None
TmIdle ==
    /\ tm_pc = "idle"
    /\ tm_fps = <<0, 1>>
    /\ tm_step_time = <<1, 1>>
    /\ tm_total_frames = 0
    /\ tm_frame_step = 0
    /\ tm_pos = 0
    /\ tm_cands = <<>>
    /\ tm_ordered = None

Procs == 1..2
NoProcs == [i \in Procs |-> "none"]
ZeroProgress == [i \in Procs |-> 0]
ZeroLines == [i \in Procs |-> 0]
\* min(current_us / duration_us * 100, 100) for the lines an encoder prints
ProgressValues == { 50, 100 }

\* The locals and histories of the pipeline before anything has run.
PipeFresh ==
    /\ exc = None
    /\ files = {}
    /\ created = {}
    /\ probe_runs = 0
    /\ encodes_started = 0
    /\ concat_runs = 0
    /\ phases = <<>>
    /\ proc = NoProcs
    /\ listener = NoProcs
    /\ progress = ZeroProgress
    /\ lines = ZeroLines
    /\ overall_pct = 0
    /\ lowres_fps = <<0, 1>>
    /\ frame_step = 0
    /\ total_frames = 0
    /\ pos = 0
    /\ prev_photo_hash = None
    /\ prev_step_hash = None
    /\ photo_timestamps = <<>>
    /\ sampled = <<>>
    /\ cand_at = <<>>
    /\ idx = 0
    /\ tmp_content = None
    /\ saved_count = 0
    /\ log = <<>>
    /\ written = <<>>
    /\ output_files = {}
    /\ candidates = None
    /\ saved = None
    /\ skipped = None

\* The pipeline when another entry point is the one running.
PipeIdle == pc = "idle" /\ step_time = <<1, 1>> /\ PipeFresh

Init ==
    /\ pc = "probe"
    /\ step_time \in StepTimes
    /\ PipeFresh
    /\ BpIdle /\ RrIdle /\ TgIdle /\ TbIdle /\ UbIdle /\ HdIdle /\ PaIdle /\ IrIdle /\ TmIdle

(***************************************************************************)
(* get_video_metadata, called by extract_photos_from_video.                *)
(***************************************************************************)
ProbeOutcomes == { "ok", "ffprobe not found", "ffprobe failed", "no video stream" }

\* the probe run again after a failure
ProbeRetry ==
    /\ pc = "probe"
    /\ probe_runs' = probe_runs + 1
    /\ \E outcome \in ProbeOutcomes :
          IF outcome = "ok"
          THEN /\ pc' = "transcode"
               /\ exc' = exc
          ELSE IF probe_runs < 1
          THEN /\ pc' = "probe"
               /\ exc' = exc
          ELSE /\ pc' = "raised"
               /\ exc' = Some(outcome)
    /\ UNCHANGED <<aux_vars, step_time, files, created, encodes_started, concat_runs, phases,
                   tl_vars, scan_vars, photo_timestamps, extract_vars, sum_vars>>

\* fps, video_duration_sec, frame_w, frame_h = get_video_metadata(video_file)
Probe ==
    /\ pc = "probe"
    /\ probe_runs' = probe_runs + 1
    /\ \E outcome \in ProbeOutcomes :
          IF outcome = "ok"
          THEN /\ pc' = "transcode"
               /\ exc' = exc
          ELSE /\ pc' = "raised"
               /\ exc' = Some(outcome)
    /\ UNCHANGED <<aux_vars, step_time, files, created, encodes_started, concat_runs, phases,
                   tl_vars, scan_vars, photo_timestamps, extract_vars, sum_vars>>

(***************************************************************************)
(* transcode_lowres.                                                       *)
(***************************************************************************)

\* The call: tmp1 and tmp2 are created (NamedTemporaryFile(delete=False)).
TranscodeCall ==
    /\ pc = "transcode"
    /\ files' = files \cup { "tmp1", "tmp2" }
    /\ created' = created \cup { "tmp1", "tmp2" }
    /\ phases' = Append(phases, "transcode_call")
    /\ pc' = "tl_popen"
    /\ UNCHANGED <<aux_vars, step_time, exc, probe_runs, encodes_started, concat_runs,
                   tl_vars, scan_vars, photo_timestamps, extract_vars, sum_vars>>

\* The two Popen calls and the start of the listener threads; a missing
\* ffmpeg makes the first Popen raise FileNotFoundError.
Popen ==
    /\ pc = "tl_popen"
    /\ \E found \in BOOLEAN :
          IF found
          THEN /\ proc' = [i \in Procs |-> "running"]
               /\ listener' = [i \in Procs |-> "alive"]
               /\ encodes_started' = encodes_started + 2
               /\ pc' = "tl_poll"
               /\ UNCHANGED <<files, exc>>
          ELSE /\ files' = files \ { "tmp1", "tmp2" }
               /\ exc' = Some("ffmpeg not found")
               /\ pc' = "raised"
               /\ UNCHANGED <<proc, listener, encodes_started>>
    /\ UNCHANGED <<aux_vars, step_time, created, probe_runs, concat_runs, phases, progress,
                   lines, overall_pct, scan_vars, photo_timestamps, extract_vars,
                   sum_vars>>

\* _read_ffmpeg_progress, one line: listener i reads an out_time_us line of
\* its encoder and stores the percentage in its slot; a line whose number
\* does not parse, or a duration of 0, stores nothing.
\* the store with every slot written
WriteSlotAll(list, index, value) == [k \in DOMAIN list |-> value]

\* progress_list[index] = value
WriteSlot(list, index, value) == [list EXCEPT ![index] = value]

ListenerLine(i) ==
    /\ pc = "tl_poll"
    /\ listener[i] = "alive"
    /\ lines[i] < MaxProgressLines
    /\ lines' = [lines EXCEPT ![i] = @ + 1]
    /\ \E stored \in BOOLEAN :
          IF stored
          THEN \E v \in ProgressValues : progress' = WriteSlot(progress, i, v)
          ELSE progress' = progress
    /\ UNCHANGED <<aux_vars, pc, step_time, exc, files, hist_vars, proc, listener, overall_pct,
                   scan_vars, photo_timestamps, extract_vars, sum_vars>>

\* Encoder i exits, with return code 0 or not.
ProcExit(i) ==
    /\ pc = "tl_poll"
    /\ proc[i] = "running"
    /\ \E code \in { "exit0", "exit1" } : proc' = [proc EXCEPT ![i] = code]
    /\ UNCHANGED <<aux_vars, pc, step_time, exc, files, hist_vars, listener, progress, lines,
                   overall_pct, scan_vars, photo_timestamps, extract_vars, sum_vars>>

\* Listener i reaches the end of its encoder's stdout and ends.
ListenerEnd(i) ==
    /\ pc = "tl_poll"
    /\ listener[i] = "alive"
    /\ proc[i] \in { "exit0", "exit1" }
    /\ listener' = [listener EXCEPT ![i] = "ended"]
    /\ UNCHANGED <<aux_vars, pc, step_time, exc, files, hist_vars, proc, progress, lines,
                   overall_pct, scan_vars, photo_timestamps, extract_vars, sum_vars>>

\* One iteration of: while t1.is_alive() or t2.is_alive()
PollIter ==
    /\ pc = "tl_poll"
    /\ \E i \in Procs : listener[i] = "alive"
    /\ overall_pct' = (progress[1] + progress[2]) \div 2
    /\ UNCHANGED <<aux_vars, pc, step_time, exc, files, hist_vars, proc, listener, progress,
                   lines, scan_vars, photo_timestamps, extract_vars, sum_vars>>

\* the check of the return codes with "and" in place of "or"
PollExitBothFailed ==
    /\ pc = "tl_poll"
    /\ \A i \in 1..2 : listener[i] # "alive"
    /\ IF proc[1] # "exit0" /\ proc[2] # "exit0"
       THEN /\ files' = files \ { "tmp1", "tmp2" }
            /\ exc' = Some("ffmpeg failed")
            /\ pc' = "raised"
            /\ created' = created
       ELSE /\ files' = files \cup { "concat_out", "filelist" }
            /\ created' = created \cup { "concat_out", "filelist" }
            /\ exc' = exc
            /\ pc' = "tl_concat"
    /\ UNCHANGED <<aux_vars, step_time, probe_runs, encodes_started, concat_runs, phases,
                   tl_vars, scan_vars, photo_timestamps, extract_vars, sum_vars>>

\* The loop ends; join, wait, and the check of the return codes.  With both
\* codes 0, concat_out and filelist are created.
PollExit ==
    /\ pc = "tl_poll"
    /\ \A i \in Procs : listener[i] # "alive"
    /\ IF proc[1] # "exit0" \/ proc[2] # "exit0"
       THEN /\ files' = files \ { "tmp1", "tmp2" }
            /\ exc' = Some("ffmpeg failed")
            /\ pc' = "raised"
            /\ created' = created
       ELSE /\ files' = files \cup { "concat_out", "filelist" }
            /\ created' = created \cup { "concat_out", "filelist" }
            /\ exc' = exc
            /\ pc' = "tl_concat"
    /\ UNCHANGED <<aux_vars, step_time, probe_runs, encodes_started, concat_runs, phases,
                   tl_vars, scan_vars, photo_timestamps, extract_vars, sum_vars>>

\* the concat step without os.unlink(concat_out.name) in its except clause
ConcatKeepsOutput ==
    /\ pc = "tl_concat"
    /\ concat_runs' = concat_runs + 1
    /\ \E ok \in BOOLEAN :
          IF ok
          THEN /\ files' = files \ { "tmp1", "tmp2", "filelist" }
               /\ phases' = Append(phases, "transcode_return")
               /\ exc' = exc
               /\ pc' = "scan_call"
               /\ proc' = [i \in 1..2 |-> "none"]
               /\ listener' = [i \in 1..2 |-> "none"]
               /\ progress' = [i \in 1..2 |-> 0]
               /\ lines' = [i \in 1..2 |-> 0]
               /\ overall_pct' = 0
          ELSE /\ files' = files \ { "tmp1", "tmp2", "filelist" }
               /\ phases' = phases
               /\ exc' = Some("ffmpeg concat failed")
               /\ pc' = "raised"
               /\ UNCHANGED tl_vars
    /\ UNCHANGED <<aux_vars, step_time, created, probe_runs, encodes_started, scan_vars,
                   photo_timestamps, extract_vars, sum_vars>>

\* subprocess.run of the concat command with its except and finally
\* clauses, and the return of concat_out.name.
Concat ==
    /\ pc = "tl_concat"
    /\ concat_runs' = concat_runs + 1
    /\ \E ok \in BOOLEAN :
          IF ok
          THEN /\ files' = files \ { "tmp1", "tmp2", "filelist" }
               /\ phases' = Append(phases, "transcode_return")
               /\ exc' = exc
               /\ pc' = "scan_call"
               /\ proc' = NoProcs
               /\ listener' = NoProcs
               /\ progress' = ZeroProgress
               /\ lines' = ZeroLines
               /\ overall_pct' = 0
          ELSE /\ files' = (files \ { "concat_out" }) \ { "tmp1", "tmp2", "filelist" }
               /\ phases' = phases
               /\ exc' = Some("ffmpeg concat failed")
               /\ pc' = "raised"
               /\ UNCHANGED tl_vars
    /\ UNCHANGED <<aux_vars, step_time, created, probe_runs, encodes_started, scan_vars,
                   photo_timestamps, extract_vars, sum_vars>>

(***************************************************************************)
(* scan_for_photos.                                                        *)
(***************************************************************************)

\* The call: the capture is opened on the low-resolution file and reports
\* its frame rate and frame count.
ScanCall ==
    /\ pc = "scan_call"
    /\ \E f \in FpsValues, n \in 0..MaxFrames :
          /\ lowres_fps' = f
          /\ total_frames' = n
          /\ frame_step' = FrameStep(f, step_time)
    /\ pos' = 0
    /\ prev_photo_hash' = None
    /\ prev_step_hash' = None
    /\ photo_timestamps' = <<>>
    /\ phases' = Append(phases, "scan_call")
    /\ pc' = "scan_loop"
    /\ UNCHANGED <<aux_vars, step_time, exc, files, created, probe_runs, encodes_started,
                   concat_runs, tl_vars, sampled, cand_at, extract_vars, sum_vars>>

\* One iteration of the loop on a frame that cap.read() returned.
ScanStep ==
    /\ pc = "scan_loop"
    /\ pos < total_frames
    /\ \E frame \in Frames :
          LET current_frame == pos
              timestamp_sec == TimestampSec(current_frame, lowres_fps)
              time_str == TimeStr(timestamp_sec)
              r == ScanFrame(frame, prev_photo_hash, prev_step_hash)
          IN  /\ sampled' = Append(sampled, frame)
              /\ photo_timestamps' =
                    IF r.append
                    THEN AppendCandidate(photo_timestamps,
                             [timestamp_sec |-> timestamp_sec, time_str |-> time_str])
                    ELSE photo_timestamps
              /\ cand_at' = IF r.append THEN Append(cand_at, Len(sampled) + 1) ELSE cand_at
              /\ prev_photo_hash' = r.photo
              /\ prev_step_hash' = r.step
              /\ pos' = NextPos(current_frame, frame_step)
    /\ UNCHANGED <<aux_vars, pc, step_time, exc, files, hist_vars, tl_vars, lowres_fps,
                   frame_step, total_frames, extract_vars, sum_vars>>

\* The locals of scan_for_photos after its activation has ended.
ScanLocalsGone ==
    /\ lowres_fps' = <<0, 1>>
    /\ frame_step' = 0
    /\ total_frames' = 0
    /\ pos' = 0
    /\ prev_photo_hash' = None
    /\ prev_step_hash' = None
    /\ sampled' = <<>>
    /\ cand_at' = <<>>

\* current_frame >= total_frames: break, release, return photo_timestamps.
ScanEnd ==
    /\ pc = "scan_loop"
    /\ pos >= total_frames
    /\ ScanLocalsGone
    /\ phases' = Append(phases, "scan_return")
    /\ pc' = "phase3"
    /\ UNCHANGED <<aux_vars, step_time, exc, files, created, probe_runs, encodes_started,
                   concat_runs, tl_vars, photo_timestamps, extract_vars, sum_vars>>

\* cap.read() returns ret = False: break, release, return photo_timestamps.
ScanReadFail ==
    /\ pc = "scan_loop"
    /\ pos < total_frames
    /\ ScanLocalsGone
    /\ phases' = Append(phases, "scan_return")
    /\ pc' = "phase3"
    /\ UNCHANGED <<aux_vars, step_time, exc, files, created, probe_runs, encodes_started,
                   concat_runs, tl_vars, photo_timestamps, extract_vars, sum_vars>>

\* A call inside the loop raises (a cv2.error of a classifier, an interrupt):
\* the exception leaves scan_for_photos and enters the driver's finally.
ScanRaise ==
    /\ pc = "scan_loop"
    /\ pos < total_frames
    /\ ScanLocalsGone
    /\ photo_timestamps' = <<>>
    /\ exc' = Some("scan_for_photos raised")
    /\ pc' = "finally"
    /\ UNCHANGED <<aux_vars, step_time, files, hist_vars, tl_vars, extract_vars, sum_vars>>

(***************************************************************************)
(* extract_fullres_frames.                                                 *)
(***************************************************************************)

\* the test of the candidate count left out
AlwaysTruthy(n) == TRUE

\* if candidates:
Truthy(n) == n # 0

\* The call from phase 3: tmp_frame is created, empty.
ExtractCall ==
    /\ pc = "phase3"
    /\ Truthy(Len(photo_timestamps))
    /\ candidates' = Some(Len(photo_timestamps))
    /\ files' = files \cup { "tmp_frame" }
    /\ created' = created \cup { "tmp_frame" }
    /\ phases' = Append(phases, "extract_call")
    /\ idx' = 0
    /\ saved_count' = 0
    /\ tmp_content' = None
    /\ pc' = "extract_loop"
    /\ UNCHANGED <<aux_vars, step_time, exc, probe_runs, encodes_started, concat_runs, tl_vars,
                   scan_vars, photo_timestamps, log, written, output_files,
                   saved, skipped>>

\* for timestamp_sec, time_str in photo_timestamps: the element of pass i + 1
NextCandidate(list, i) == list[i + 1]

\* What one ffmpeg single-frame run does: exit non-zero; exit 0 having
\* written the frame at the timestamp; exit 0 having written a file that
\* cv2.imread cannot decode; exit 0 having written nothing.
FfmpegOutcomes == { "failed", "frame", "undecodable", "nothing" }

\* The disposition of a candidate, as printed and logged: the extraction
\* exited non-zero; the frame file could not be read; _rejection_reason
\* returned a reason; the image was written.
Result(outcome, content, accepted) ==
    IF outcome = "failed" THEN "ffmpeg failed"
    ELSE IF content = None THEN "could not read"
    ELSE IF accepted THEN "saved"
    ELSE "rejected"

\* saved_count incremented for every decoded frame, rejected ones too
CountSavedDecoded(n, result) == IF result \in { "saved", "rejected" } THEN n + 1 ELSE n

\* saved_count after a pass with the given disposition
CountSaved(n, result) == IF result = "saved" THEN n + 1 ELSE n

\* the loop with break in place of continue after a failed extraction
LoopNextBreak(i, n, result) == IF result = "ffmpeg failed" THEN n ELSE i + 1

\* The loop after a pass: continue, or the end of the body, go on with the
\* next element of the list (n is the length of the list).
LoopNext(i, n, result) == i + 1

\* One pass of the loop body.
ExtractStep ==
    /\ pc = "extract_loop"
    /\ idx < Len(photo_timestamps)
    /\ \E outcome \in FfmpegOutcomes, accepted \in BOOLEAN :
          LET cand == NextCandidate(photo_timestamps, idx)
              content == CASE outcome = "frame" -> Some(idx + 1)
                           [] outcome = "undecodable" -> None
                           [] OTHER -> tmp_content
              result == Result(outcome, content, accepted)
              file_name == FileName(cand.time_str)
          IN  \* accepted is the validation's verdict: it exists for a decoded frame only
              /\ (result \in { "ffmpeg failed", "could not read" } => ~accepted)
              /\ tmp_content' = content
              /\ log' = Append(log, [timestamp_sec |-> cand.timestamp_sec,
                                     time_str |-> cand.time_str, result |-> result])
              /\ written' = IF result = "saved"
                            THEN Append(written, [file_name |-> file_name, frame_of |-> content[1]])
                            ELSE written
              /\ output_files' = IF result = "saved"
                                 THEN output_files \cup { file_name }
                                 ELSE output_files
              /\ saved_count' = CountSaved(saved_count, result)
              /\ idx' = LoopNext(idx, Len(photo_timestamps), result)
    /\ UNCHANGED <<aux_vars, pc, step_time, exc, files, hist_vars, tl_vars, scan_vars,
                   photo_timestamps, sum_vars>>

\* The list is exhausted: finally removes tmp_frame, saved_count is returned.
ExtractReturn ==
    /\ pc = "extract_loop"
    /\ idx >= Len(photo_timestamps)
    /\ files' = files \ { "tmp_frame" }
    /\ saved' = Some(saved_count)
    /\ phases' = Append(phases, "extract_return")
    /\ idx' = 0
    /\ saved_count' = 0
    /\ tmp_content' = None
    /\ pc' = "finally"
    /\ UNCHANGED <<aux_vars, step_time, exc, created, probe_runs, encodes_started, concat_runs,
                   tl_vars, scan_vars, photo_timestamps, log, written,
                   output_files, candidates, skipped>>

\* A call of the loop body raises (subprocess.run, trim_and_add_border,
\* cv2.imwrite): finally removes tmp_frame and the exception leaves
\* extract_fullres_frames for the driver's finally.
ExtractRaise ==
    /\ pc = "extract_loop"
    /\ idx < Len(photo_timestamps)
    /\ files' = files \ { "tmp_frame" }
    /\ exc' = Some("extract_fullres_frames raised")
    /\ pc' = "finally"
    /\ UNCHANGED <<aux_vars, step_time, hist_vars, tl_vars, scan_vars, photo_timestamps,
                   extract_vars, sum_vars>>

(***************************************************************************)
(* extract_photos_from_video: the rest of the try block, its finally and     *)
(* the summary.                                                            *)
(***************************************************************************)

\* else: "No photos found", saved = 0
NoPhotos ==
    /\ pc = "phase3"
    /\ ~Truthy(Len(photo_timestamps))
    /\ candidates' = Some(Len(photo_timestamps))
    /\ saved' = Some(0)
    /\ pc' = "finally"
    /\ UNCHANGED <<aux_vars, step_time, exc, files, hist_vars, tl_vars, scan_vars,
                   photo_timestamps, extract_vars, skipped>>

\* os.unlink(lowres_path) after the try statement, without finally
UnlinkAfterTry ==
    /\ pc = "finally"
    /\ files' = IF exc = None THEN files \ { "concat_out" } ELSE files
    /\ pc' = IF exc # None THEN "raised" ELSE "summary"
    /\ UNCHANGED <<aux_vars, step_time, exc, hist_vars, tl_vars, scan_vars, photo_timestamps,
                   extract_vars, sum_vars>>

\* finally: os.unlink(lowres_path); a pending exception goes on to the caller
Finally ==
    /\ pc = "finally"
    /\ files' = files \ { "concat_out" }
    /\ pc' = IF exc # None THEN "raised" ELSE "summary"
    /\ UNCHANGED <<aux_vars, step_time, exc, hist_vars, tl_vars, scan_vars, photo_timestamps,
                   extract_vars, sum_vars>>

\* skipped = candidates - saved if candidates else 0
Skipped(n_candidates, n_saved) == IF Truthy(n_candidates) THEN n_candidates - n_saved ELSE 0

Summary ==
    /\ pc = "summary"
    /\ skipped' = Some(Skipped(candidates[1], saved[1]))
    /\ pc' = "done"
    /\ UNCHANGED <<aux_vars, step_time, exc, files, hist_vars, tl_vars, scan_vars,
                   photo_timestamps, extract_vars, candidates, saved>>

Next ==
    \/ Probe
    \/ TranscodeCall
    \/ Popen
    \/ \E i \in Procs : ListenerLine(i)
    \/ \E i \in Procs : ProcExit(i)
    \/ \E i \in Procs : ListenerEnd(i)
    \/ PollIter
    \/ PollExit
    \/ Concat
    \/ ScanCall
    \/ ScanStep
    \/ ScanEnd
    \/ ScanReadFail
    \/ ScanRaise
    \/ ExtractCall
    \/ ExtractStep
    \/ ExtractReturn
    \/ ExtractRaise
    \/ NoPhotos
    \/ Finally
    \/ Summary

Spec == Init /\ [][Next]_vars

(***************************************************************************)
(* Properties of the scan.                                                 *)
(***************************************************************************)

\* sample i is the first frame of a maximal run of photo frames
RunStart(i) ==
    /\ IsPhotoFrame(sampled[i])
    /\ (i = 1 \/ ~IsPhotoFrame(sampled[i - 1]))

\* samples i..j lie in one run of photo frames
SameRun(i, j) == \A k \in i..j : IsPhotoFrame(sampled[k])

\* the frames of every run are pairwise within Hamming distance 3
RunsTight ==
    \A i, j \in 1..Len(sampled) :
        (i < j /\ SameRun(i, j)) =>
            hash_difference(sampled[i].hash, sampled[j].hash) <= 3

\* the low-resolution frame index of sample i
FrameOfSample(i) == (i - 1) * frame_step

C2_ResetThenNew ==
    pc = "scan_loop" =>
        \A i \in 1..Len(sampled) :
            ~IsPhotoFrame(sampled[i]) =>
                /\ (i = Len(sampled) => prev_photo_hash = None /\ prev_step_hash = None)
                /\ (i < Len(sampled) /\ IsPhotoFrame(sampled[i + 1]) =>
                        \E k \in 1..Len(cand_at) : cand_at[k] = i + 1)

\* photo A, a video frame, the same photo A again: recorded twice
C2_Witness ==
    /\ pc = "scan_loop"
    /\ Len(sampled) = 3
    /\ IsPhotoFrame(sampled[1]) /\ ~IsPhotoFrame(sampled[2]) /\ IsPhotoFrame(sampled[3])
    /\ sampled[1].hash = sampled[3].hash
    /\ cand_at = <<1, 3>>

\* C3: the candidate list is in non-decreasing timestamp order, and the
\* extraction takes the candidates in the order of the list.
C3_TimestampOrder ==
    /\ \A i, j \in 1..Len(photo_timestamps) :
          i < j => RatLeq(photo_timestamps[i].timestamp_sec, photo_timestamps[j].timestamp_sec)
    /\ Len(log) <= Len(photo_timestamps)
    /\ \A i \in 1..Len(log) :
          /\ log[i].timestamp_sec = photo_timestamps[i].timestamp_sec
          /\ log[i].time_str = photo_timestamps[i].time_str

\* three candidates at increasing timestamps, all taken by the extraction
C3_Witness ==
    /\ pc = "done"
    /\ Len(photo_timestamps) = 3
    /\ Len(log) = 3
    /\ ~RatLeq(photo_timestamps[2].timestamp_sec, photo_timestamps[1].timestamp_sec)
    /\ ~RatLeq(photo_timestamps[3].timestamp_sec, photo_timestamps[2].timestamp_sec)

(***************************************************************************)
(* Properties of the extraction and of the driver.                         *)
(***************************************************************************)

\* the phase event has happened
Happened(e) == \E i \in 1..Len(phases) : phases[i] = e

\* the dispositions logged so far
Results == { log[i].result : i \in 1..Len(log) }

\* the number of candidates logged as saved
SavedInLog == Cardinality({ i \in 1..Len(log) : log[i].result = "saved" })

\* C4: whatever the dispositions of the candidates, every pass of the loop
\* goes on to the next candidate, and when extract_fullres_frames has
\* returned every candidate of the list has been taken once, in list order.
C4_EveryCandidateAttempted ==
    /\ pc = "extract_loop" => Len(log) = idx /\ idx <= Len(photo_timestamps)
    /\ Happened("extract_return") =>
          /\ Len(log) = Len(photo_timestamps)
          /\ \A i \in 1..Len(log) :
                /\ log[i].timestamp_sec = photo_timestamps[i].timestamp_sec
                /\ log[i].time_str = photo_timestamps[i].time_str

\* a list of four candidates with the four dispositions, returned normally
C4_Witness ==
    /\ Happened("extract_return")
    /\ exc = None
    /\ Len(log) = 4
    /\ Results = { "ffmpeg failed", "could not read", "rejected", "saved" }
    /\ log[1].result = "ffmpeg failed"

\* C5: once transcode_lowres has returned, the low-resolution file is gone
\* when extract_photos_from_video has left its try statement, normally or
\* not, and an exception of the scan or of the extraction is never
\* swallowed: it is in flight or raised to the caller.
C5_LowresRemoved ==
    /\ (Happened("transcode_return") /\ pc \in { "summary", "done", "raised" }) =>
          "concat_out" \notin files
    /\ exc \in { Some("scan_for_photos raised"), Some("extract_fullres_frames raised") } =>
          pc \in { "finally", "raised" }

\* the extraction raised on its second candidate, the exception reached the
\* caller and the low-resolution file is gone
C5_Witness ==
    /\ pc = "raised"
    /\ exc = Some("extract_fullres_frames raised")
    /\ Len(log) = 1
    /\ "concat_out" \in created
    /\ "concat_out" \notin files

TranscodeTemps == { "tmp1", "tmp2", "concat_out", "filelist" }

C7_OneFilePerSaved ==
    /\ \A i, j \in 1..Len(written) : i # j => written[i].file_name # written[j].file_name
    /\ Cardinality(output_files) = Len(written)
    /\ Happened("extract_return") => Cardinality(output_files) = saved[1]

\* C8: the saved count is the number of candidates that passed validation
\* and were written, between 0 and the number of candidates; the summary
\* has skipped = candidates - saved, and saved = skipped = 0 without
\* candidates.
C8_Counts ==
    /\ pc = "extract_loop" => saved_count = SavedInLog /\ saved_count = Len(written)
    /\ (saved # None /\ candidates # None) =>
          /\ saved[1] = SavedInLog
          /\ saved[1] = Len(written)
          /\ 0 <= saved[1] /\ saved[1] <= candidates[1]
          /\ candidates[1] = Len(photo_timestamps)
    /\ pc = "done" =>
          /\ skipped[1] = candidates[1] - saved[1]
          /\ candidates[1] = 0 => saved[1] = 0 /\ skipped[1] = 0

\* three candidates, two saved, one rejected by the validation
C8_Witness ==
    /\ pc = "done"
    /\ candidates = Some(3)
    /\ saved = Some(2)
    /\ skipped = Some(1)
    /\ "rejected" \in Results

PhaseOrder ==
    << "transcode_call", "transcode_return", "scan_call", "scan_return",
       "extract_call", "extract_return" >>

\* C9: the phases are called and return in the order transcode, scan,
\* extract, each call after the return of the phase before, and the
\* extraction is called with a non-empty candidate list only.
C9_PhaseOrder ==
    /\ Len(phases) <= Len(PhaseOrder)
    /\ \A i \in 1..Len(phases) : phases[i] = PhaseOrder[i]
    /\ Happened("extract_call") => photo_timestamps # <<>>
    /\ pc \in { "scan_loop", "phase3", "extract_loop" } =>
          \A i \in Procs : proc[i] = "none" /\ listener[i] = "none"

\* a run through all three phases
C9_Witness ==
    /\ pc = "done"
    /\ phases = PhaseOrder
    /\ Len(photo_timestamps) = 2

\* C10: a probe that is missing, fails or finds no video stream makes
\* extract_photos_from_video raise with no encoder started and no temporary
\* file created, after one run of the probe.
C10_ProbeFailureFirst ==
    /\ probe_runs <= 1
    /\ exc \in { Some("ffprobe not found"), Some("ffprobe failed"), Some("no video stream") } =>
          /\ pc = "raised"
          /\ probe_runs = 1
          /\ encodes_started = 0
          /\ concat_runs = 0
          /\ created = {}
          /\ files = {}
          /\ phases = <<>>

\* the probe found no video stream
C10_Witness ==
    /\ pc = "raised"
    /\ exc = Some("no video stream")
    /\ probe_runs = 1
    /\ created = {}

(***************************************************************************)
(* process_videos_in_directory (batch_processor.py).                       *)
(***************************************************************************)
\* bound: number of entries of the input directory
MaxFiles == 3

video_file_extensions == { ".mp4", ".mkv", ".avi", ".mov", ".webm" }

\* str.lower() on the characters and extensions of the modelled names
Lower(c) ==
    CASE c = "A" -> "a"
      [] c = ".MKV" -> ".mkv"
      [] OTHER -> c

\* File names of the directory, as os.path.splitext splits them.
FileNames ==
    { [stem |-> s, ext |-> e] : s \in { <<"a">>, <<"A">>, <<"b", " ", "!">> },
                                e \in { ".mp4", ".MKV", ".txt" } }

\* Directory listings: distinct names in any order.
Listings ==
    { l \in UNION { [1..n -> FileNames] : n \in 0..MaxFiles } :
        \A i, j \in 1..Len(l) : i # j => l[i] # l[j] }

\* filename.lower().endswith(video_file_extensions)
IsVideoFile(filename) == Lower(filename.ext) \in video_file_extensions

\* title.strip()
RECURSIVE Strip(_)
Strip(title) ==
    IF title = <<>> THEN title
    ELSE IF Head(title) = " " THEN Strip(Tail(title))
    ELSE IF title[Len(title)] = " " THEN Strip(SubSeq(title, 1, Len(title) - 1))
    ELSE title

\* re.sub(r"\s+", "-", title): every run of whitespace becomes one hyphen
RECURSIVE Hyphenate(_)
Hyphenate(title) ==
    IF title = <<>> THEN <<>>
    ELSE IF Head(title) # " " THEN <<Head(title)>> \o Hyphenate(Tail(title))
    ELSE IF Tail(title) # <<>> /\ Head(Tail(title)) = " " THEN Hyphenate(Tail(title))
    ELSE <<"-">> \o Hyphenate(Tail(title))

\* make_safe_folder_name: whitespace to hyphens, only \w and hyphens kept,
\* lower case
make_safe_folder_name(title) ==
    LET hyphenated == Hyphenate(Strip(title))
        kept == SelectSeq(hyphenated, LAMBDA c : c \in { "a", "A", "b", "-" })
    IN  [i \in 1..Len(kept) |-> Lower(kept[i])]

\* The first loop: the names with a video extension, in listing order.
BpList ==
    /\ bp_pc = "list"
    /\ bp_video_files' = SelectSeq(bp_listing, IsVideoFile)
    /\ bp_pc' = IF SelectSeq(bp_listing, IsVideoFile) = <<>> THEN "stopped" ELSE "loop"
    /\ UNCHANGED <<vars, bp_listing, bp_i, bp_subdirs, bp_runs, bp_exc,
                   rr_vars, tg_vars, tb_vars, ub_vars, hd_vars, pa_vars, ir_vars, tm_vars>>

\* One iteration of the second loop up to the call of the pipeline: the
\* subdirectory is made and extract_photos_from_video is entered.
BpIteration ==
    /\ bp_pc = "loop"
    /\ bp_i < Len(bp_video_files)
    /\ LET filename == bp_video_files[bp_i + 1]
           subfolder == make_safe_folder_name(filename.stem)
       IN  /\ bp_subdirs' = bp_subdirs \cup { subfolder }
           /\ bp_runs' = Append(bp_runs, filename)
    /\ bp_pc' = "call"
    /\ UNCHANGED <<vars, bp_listing, bp_video_files, bp_i, bp_exc,
                   rr_vars, tg_vars, tb_vars, ub_vars, hd_vars, pa_vars, ir_vars, tm_vars>>

\* extract_photos_from_video returns: the loop goes on with the next name.
BpPipelineReturns ==
    /\ bp_pc = "call"
    /\ bp_i' = bp_i + 1
    /\ bp_pc' = "loop"
    /\ UNCHANGED <<vars, bp_listing, bp_video_files, bp_subdirs, bp_runs, bp_exc,
                   rr_vars, tg_vars, tb_vars, ub_vars, hd_vars, pa_vars, ir_vars, tm_vars>>

\* extract_photos_from_video raises: the loop has no handler, the exception
\* leaves process_videos_in_directory.
BpPipelineRaises ==
    /\ bp_pc = "call"
    /\ bp_exc' = Some("extract_photos_from_video raised")
    /\ bp_pc' = "raised"
    /\ UNCHANGED <<vars, bp_listing, bp_video_files, bp_i, bp_subdirs, bp_runs,
                   rr_vars, tg_vars, tb_vars, ub_vars, hd_vars, pa_vars, ir_vars, tm_vars>>

\* The loop is exhausted: the closing line is printed.
BpFinish ==
    /\ bp_pc = "loop"
    /\ bp_i = Len(bp_video_files)
    /\ bp_pc' = "done"
    /\ UNCHANGED <<vars, bp_listing, bp_video_files, bp_i, bp_subdirs, bp_runs, bp_exc,
                   rr_vars, tg_vars, tb_vars, ub_vars, hd_vars, pa_vars, ir_vars, tm_vars>>

InitBatch ==
    /\ PipeIdle
    /\ bp_pc = "list"
    /\ bp_listing \in Listings
    /\ bp_video_files = <<>>
    /\ bp_i = 0
    /\ bp_subdirs = {}
    /\ bp_runs = <<>>
    /\ bp_exc = None
    /\ RrIdle /\ TgIdle /\ TbIdle /\ UbIdle /\ HdIdle /\ PaIdle /\ IrIdle /\ TmIdle

NextBatch ==
    \/ BpList
    \/ BpIteration
    \/ BpPipelineReturns
    \/ BpPipelineRaises
    \/ BpFinish

SpecBatch == InitBatch /\ [][NextBatch]_<<vars, aux_vars>>

\* number of pipeline runs started on a file name
RunsOf(filename) == Cardinality({ i \in 1..Len(bp_runs) : bp_runs[i] = filename })

\* C11: when process_videos_in_directory has ended, by returning or by an
\* exception of one video's pipeline, every file with a video extension has
\* its output subdirectory and has had exactly one pipeline run.
C11_FailureIsolated ==
    bp_pc \in { "done", "raised" } =>
        \A i \in 1..Len(bp_listing) :
            IsVideoFile(bp_listing[i]) =>
                /\ make_safe_folder_name(bp_listing[i].stem) \in bp_subdirs
                /\ RunsOf(bp_listing[i]) = 1

(***************************************************************************)
(* The classifiers of a full-resolution frame (extract.py).  An image is   *)
(* the record of what the classifiers measure on it: its shape, the        *)
(* standard deviation of its grayscale version (a rational), and, on the   *)
(* sample_size x sample_size downscaled copy, the number of pixels         *)
(* brighter than 240, the sum over the pixels of the three absolute        *)
(* channel differences, and the number of distinct quantized colours.      *)
(***************************************************************************)
std_threshold == 5
color_count_threshold == 100
sample_size == 128
WhitePctLimit == 30
ChannelDiffLimit == 10

Images ==
    { [shape |-> sh, std |-> sd, white_pixels |-> wp, diff_sum |-> ds,
       unique_colors |-> uc] :
        sh \in { <<10, 10>>, <<10, 10, 3>>, <<100, 100>>, <<100, 100, 1>>,
                 <<100, 100, 3>> },
        sd \in { <<49, 10>>, <<5, 1>> },
        wp \in { 4915, 4916 },
        ds \in { 491519, 491520 },
        uc \in { 99, 100 } }

\* f"{x:.0f}" of the non-negative rational num / den: round half to even
RoundHalfEven(num, den) ==
    LET q == num \div den
        r == num % den
    IN  IF 2 * r > den THEN q + 1
        ELSE IF 2 * r = den THEN q + (q % 2)
        ELSE q

\* _is_near_uniform: np.std(gray) < std_threshold
is_near_uniform(image) ==
    IF ~RatLeq(<<std_threshold, 1>>, image.std)
    THEN <<"near-uniform frame">>
    ELSE None

\* _is_screenshot with the grayscale skip ahead of the white-background stage
is_screenshot_gray_first(image, count_threshold) ==
    LET n == sample_size * sample_size
    IN  IF Len(image.shape) < 3 \/ image.shape[3] < 3 THEN None
        ELSE IF image.diff_sum < ChannelDiffLimit * 3 * n THEN None
        ELSE IF image.white_pixels * 100 > WhitePctLimit * n
        THEN <<"screenshot", RoundHalfEven(image.white_pixels * 100, n),
               "% white background">>
        ELSE IF image.unique_colors < count_threshold
        THEN <<"screenshot", image.unique_colors, "unique colors">>
        ELSE None

\* _is_screenshot
is_screenshot(image, count_threshold) ==
    LET n == sample_size * sample_size
    IN  IF Len(image.shape) < 3 \/ image.shape[3] < 3 THEN None
        \* white_pct = white_pixels / n * 100 > 30.0
        ELSE IF image.white_pixels * 100 > WhitePctLimit * n
        THEN <<"screenshot", RoundHalfEven(image.white_pixels * 100, n),
               "% white background">>
        \* mean_channel_diff = diff_sum / n / 3 < 10.0
        ELSE IF image.diff_sum < ChannelDiffLimit * 3 * n THEN None
        ELSE IF image.unique_colors < count_threshold
        THEN <<"screenshot", image.unique_colors, "unique colors">>
        ELSE None

\* _rejection_reason with the screenshot check ahead of the near-uniform check
rejection_reason_screenshot_first(image, min_photo_area) ==
    LET h == image.shape[1]
        w == image.shape[2]
    IN  IF min_photo_area > 0 /\ w * h < min_photo_area
        THEN <<"too small", w, h>>
        ELSE IF is_screenshot(image, color_count_threshold) # <<>>
        THEN is_screenshot(image, color_count_threshold)
        ELSE IF is_near_uniform(image) # <<>> THEN is_near_uniform(image)
        ELSE None

\* _rejection_reason
rejection_reason(image, min_photo_area) ==
    LET h == image.shape[1]
        w == image.shape[2]
    IN  IF min_photo_area > 0 /\ w * h < min_photo_area
        THEN <<"too small", w, h>>
        ELSE IF is_near_uniform(image) # <<>> THEN is_near_uniform(image)
        ELSE IF is_screenshot(image, color_count_threshold) # <<>>
        THEN is_screenshot(image, color_count_threshold)
        ELSE None

\* A call of _rejection_reason on the image.
RejectionReasonCall ==
    /\ rr_reason = None
    /\ rr_reason' = Some(rejection_reason(rr_image, rr_min_area))
    /\ UNCHANGED <<vars, rr_image, rr_min_area, rr_shot,
                   bp_vars, tg_vars, tb_vars, ub_vars, hd_vars, pa_vars, ir_vars, tm_vars>>

\* A call of _is_screenshot on the image.
IsScreenshotCall ==
    /\ rr_shot = None
    /\ rr_shot' = Some(is_screenshot(rr_image, color_count_threshold))
    /\ UNCHANGED <<vars, rr_image, rr_min_area, rr_reason,
                   bp_vars, tg_vars, tb_vars, ub_vars, hd_vars, pa_vars, ir_vars, tm_vars>>

InitClassify ==
    /\ PipeIdle
    /\ rr_image \in Images
    /\ rr_min_area \in { 0, 5000 }
    /\ rr_reason = None
    /\ rr_shot = None
    /\ BpIdle /\ TgIdle /\ TbIdle /\ UbIdle /\ HdIdle /\ PaIdle /\ IrIdle /\ TmIdle

NextClassify ==
    \/ RejectionReasonCall
    \/ IsScreenshotCall

SpecClassify == InitClassify /\ [][NextClassify]_<<vars, aux_vars>>

\* what the three checks say about the image, each taken alone
TooSmall == rr_min_area > 0 /\ rr_image.shape[1] * rr_image.shape[2] < rr_min_area
NearUniform == rr_image.std[1] < 5 * rr_image.std[2]
SingleChannel == Len(rr_image.shape) < 3 \/ rr_image.shape[3] < 3
WhiteBackground == rr_image.white_pixels * 100 > 30 * 128 * 128
EffectivelyGray == rr_image.diff_sum < 10 * 3 * 128 * 128
FewColours == rr_image.unique_colors < 100
LooksLikeScreenshot ==
    /\ ~SingleChannel
    /\ \/ WhiteBackground
       \/ ~EffectivelyGray /\ FewColours

\* C12: _rejection_reason reports the first failing check in the order
\* size, near-uniform, screenshot; it skips the size check when
\* min_photo_area is 0; it returns none exactly when every applicable check
\* passes; and the rejection is its return value.
C12_FirstFailureWins ==
    rr_reason # None =>
        LET r == rr_reason[1]
        IN  /\ TooSmall => r = <<"too small", rr_image.shape[2], rr_image.shape[1]>>
            /\ (~TooSmall /\ NearUniform) => r = <<"near-uniform frame">>
            /\ (~TooSmall /\ ~NearUniform /\ LooksLikeScreenshot) =>
                   (r # None /\ r[1] = "screenshot")
            /\ (r = None) <=> (~TooSmall /\ ~NearUniform /\ ~LooksLikeScreenshot)
            /\ (rr_min_area = 0 /\ r # None) => r[1] # "too small"

\* an image that fails all three checks is reported as too small
C12_Witness ==
    /\ rr_reason # None
    /\ TooSmall /\ NearUniform /\ LooksLikeScreenshot
    /\ rr_reason[1][1] = "too small"

MaxProfile == 5

\* the defaults of content_fraction and min_gap_px
ContentFraction == <<3, 10>>
MinGapPx == 10

\* zero, sparse, exactly content_fraction, dense
Densities == { <<0, 1>>, <<1, 50>>, <<3, 10>>, <<1, 2>> }
Profiles == UNION { [1..n -> Densities] : n \in 0..MaxProfile }

\* [0.02, 0.03, 0.01, ten zeros, 0.5, 0.8, 0.9]
ExampleProfile ==
    <<<<2, 100>>, <<3, 100>>, <<1, 100>>>>
        \o [i \in 1..10 |-> <<0, 1>>]
        \o <<<<5, 10>>, <<8, 10>>, <<9, 10>>>>

\* the first loop with the comparison > in place of >=
RECURSIVE DenseStartStrict(_, _, _)
DenseStartStrict(density, content_fraction, i) ==
    IF i >= Len(density) THEN <<>>
    ELSE IF ~RatLeq(density[i + 1], content_fraction) THEN <<i>>
    ELSE DenseStartStrict(density, content_fraction, i + 1)

\* the first loop: the first i in range(i, n) with density[i] >= content_fraction
RECURSIVE DenseStartFrom(_, _, _)
DenseStartFrom(density, content_fraction, i) ==
    IF i >= Len(density) THEN None
    ELSE IF RatLeq(content_fraction, density[i + 1]) THEN Some(i)
    ELSE DenseStartFrom(density, content_fraction, i + 1)

\* the walk backward with gap_start = i in place of i + 1
RECURSIVE GapStartAtText(_, _)
GapStartAtText(density, i) ==
    IF i < 0 THEN <<>>
    ELSE IF density[i + 1][1] > 0 THEN <<i>>
    ELSE GapStartAtText(density, i - 1)

\* the second loop: walking backward from i, gap_start = j + 1 for the
\* first j with density[j] > 0; None when the loop runs to its else branch
RECURSIVE GapStartFrom(_, _)
GapStartFrom(density, i) ==
    IF i < 0 THEN None
    ELSE IF density[i + 1][1] > 0 THEN Some(i + 1)
    ELSE GapStartFrom(density, i - 1)

\* _find_text_gap_from_edge
find_text_gap_from_edge(density, content_fraction, min_gap_px) ==
    LET n == Len(density)
        dense_start == DenseStartFrom(density, content_fraction, 0)
    IN  IF n = 0 THEN <<0, 0>>
        ELSE IF dense_start = None \/ dense_start[1] < min_gap_px THEN <<0, 0>>
        ELSE
          LET gap_end == dense_start[1]
              gap_start == GapStartFrom(density, dense_start[1] - 1)
          IN  IF gap_start = None THEN <<0, 0>>
              ELSE
                LET gap_width == gap_end - gap_start[1]
                    has_text ==
                        \E i \in 0..(gap_start[1] - 1) :
                            /\ density[i + 1][1] > 0
                            /\ ~RatLeq(content_fraction, density[i + 1])
                IN  IF gap_width < min_gap_px THEN <<0, 0>>
                    ELSE IF ~has_text THEN <<0, 0>>
                    ELSE <<gap_width, dense_start[1]>>

\* A call of _find_text_gap_from_edge on the profile.
FindTextGapCall ==
    /\ tg_result = None
    /\ tg_result' = Some(find_text_gap_from_edge(tg_density, ContentFraction, tg_min_gap))
    /\ UNCHANGED <<vars, tg_density, tg_min_gap,
                   bp_vars, rr_vars, tb_vars, ub_vars, hd_vars, pa_vars, ir_vars, tm_vars>>

InitGap ==
    /\ PipeIdle
    /\ \/ tg_density \in Profiles /\ tg_min_gap \in { 0, 2, 3 }
       \/ tg_density = ExampleProfile /\ tg_min_gap = MinGapPx
    /\ tg_result = None
    /\ BpIdle /\ RrIdle /\ TbIdle /\ UbIdle /\ HdIdle /\ PaIdle /\ IrIdle /\ TmIdle

NextGap == FindTextGapCall

SpecGap == InitGap /\ [][NextGap]_<<vars, aux_vars>>

\* indexes of the profile whose density is at least 0.3
DenseIndexes == { i \in 0..(Len(tg_density) - 1) :
                    tg_density[i + 1][1] * 10 >= 3 * tg_density[i + 1][2] }
\* the first of them
FirstDenseIndex == CHOOSE i \in DenseIndexes : \A j \in DenseIndexes : i <= j
\* indexes before it whose density is above zero
TextIndexes == { i \in 0..(FirstDenseIndex - 1) : tg_density[i + 1][1] > 0 }
\* one past the last of them
GapStartIndex == 1 + (CHOOSE i \in TextIndexes : \A j \in TextIndexes : j <= i)
\* the text-gap-photo pattern is present
PatternFound ==
    /\ DenseIndexes # {}
    /\ FirstDenseIndex >= tg_min_gap
    /\ TextIndexes # {}
    /\ FirstDenseIndex - GapStartIndex >= tg_min_gap

\* C14: _find_text_gap_from_edge returns (dense_start - gap_start,
\* dense_start) exactly when dense_start >= min_gap_px, a non-zero density
\* exists before dense_start and the gap is at least min_gap_px wide, and
\* (0, 0) in every other case; the example profile gives (10, 13).
C14_TextGap ==
    tg_result # None =>
        /\ tg_result[1] = IF PatternFound
                          THEN <<FirstDenseIndex - GapStartIndex, FirstDenseIndex>>
                          ELSE <<0, 0>>
        /\ (tg_density = ExampleProfile /\ tg_min_gap = 10) => tg_result[1] = <<10, 13>>

\* the example profile has been evaluated and a pattern was found
C14_Witness ==
    /\ tg_result # None
    /\ tg_density = ExampleProfile
    /\ tg_result[1][1] > 0

(***************************************************************************)
(* trim_and_add_border (borders.py) on single-channel images.  An image is *)
(* a sequence of rows of pixel values; indexes are the code's, from 0.     *)
(***************************************************************************)
\* bounds: thickness of the border around the content, and border_px
MaxBorder == 2
MaxBorderPx == 2

uniformity_threshold == 10
border_diff_threshold == 30

\* sum of a sequence of integers
RECURSIVE SumSeq(_)
SumSeq(values) == IF values = <<>> THEN 0 ELSE Head(values) + SumSeq(Tail(values))

\* np.std(values) > threshold, on the exact population variance
StdAbove(values, threshold) ==
    LET n == Len(values)
        squares == [i \in 1..n |-> values[i] * values[i]]
    IN  n * SumSeq(squares) - SumSeq(values) * SumSeq(values) > threshold * threshold * n * n

\* image[top:bottom + 1, left:right + 1]
Crop(image, top, bottom, left, right) ==
    [i \in 1..(bottom - top + 1) |->
        [j \in 1..(right - left + 1) |-> image[top + i][left + j]]]

\* cv2.copyMakeBorder that adds no rows below the image
CopyMakeBorderNoBottom(image, pad_top, pad_bottom, pad_left, pad_right, value) ==
    LET h == Len(image)
        w == Len(image[1])
    IN  [i \in 1..(h + pad_top) |->
            [j \in 1..(w + pad_left + pad_right) |->
                IF i > pad_top /\ j > pad_left /\ j <= pad_left + w
                THEN image[i - pad_top][j - pad_left]
                ELSE value]]

\* cv2.copyMakeBorder(..., BORDER_CONSTANT, value)
CopyMakeBorder(image, pad_top, pad_bottom, pad_left, pad_right, value) ==
    LET h == Len(image)
        w == Len(image[1])
    IN  [i \in 1..(h + pad_top + pad_bottom) |->
            [j \in 1..(w + pad_left + pad_right) |->
                IF /\ i > pad_top /\ i <= pad_top + h
                   /\ j > pad_left /\ j <= pad_left + w
                THEN image[i - pad_top][j - pad_left]
                ELSE value]]

\* _detect_text_padding: <<padding, crop>>, each (top, bottom, left, right)
detect_text_padding(cropped_gray, border_gray_value) ==
    LET h == Len(cropped_gray)
        w == Len(cropped_gray[1])
        Abs(x) == IF x < 0 THEN -x ELSE x
        mask(i, j) == IF Abs(cropped_gray[i][j] - border_gray_value) > border_diff_threshold
                      THEN 1 ELSE 0
        col_density == [j \in 1..w |-> <<SumSeq([i \in 1..h |-> mask(i, j)]), h>>]
        row_density == [i \in 1..h |-> <<SumSeq([j \in 1..w |-> mask(i, j)]), w>>]
        Reversed(s) == [k \in 1..Len(s) |-> s[Len(s) + 1 - k]]
        left == find_text_gap_from_edge(col_density, ContentFraction, MinGapPx)
        right == find_text_gap_from_edge(Reversed(col_density), ContentFraction, MinGapPx)
        top == find_text_gap_from_edge(row_density, ContentFraction, MinGapPx)
        bottom == find_text_gap_from_edge(Reversed(row_density), ContentFraction, MinGapPx)
    IN  << <<top[1], bottom[1], left[1], right[1]>>,
           <<top[2], bottom[2], left[2], right[2]>> >>

\* trim_and_add_border.  The four scanning loops stop at the first row or
\* column, from their edge, whose standard deviation exceeds the threshold.
trim_and_add_border(image, border_px, threshold, include_text) ==
    LET h == Len(image)
        w == Len(image[1])
        rows == { i \in 0..(h - 1) : StdAbove(image[i + 1], threshold) }
        cols == { j \in 0..(w - 1) :
                    StdAbove([i \in 1..h |-> image[i][j + 1]], threshold) }
        First(S) == CHOOSE x \in S : \A y \in S : x <= y
        Last(S) == CHOOSE x \in S : \A y \in S : y <= x
        Max(a, b) == IF a >= b THEN a ELSE b
    IN  IF rows = {} THEN image
        ELSE
          LET top == First(rows)
              bottom == Last(rows)
              left == IF cols = {} THEN 0 ELSE First(cols)
              right == IF cols = {} THEN w - 1 ELSE Last(cols)
              border_sample == Crop(image, 0, Max(top, 1) - 1, 0, Max(left, 1) - 1)
              sample_values == [k \in 1..(Len(border_sample) * Len(border_sample[1])) |->
                                   border_sample[1 + ((k - 1) \div Len(border_sample[1]))]
                                                [1 + ((k - 1) % Len(border_sample[1]))]]
              \* int(np.mean(border_sample))
              border_gray_value == SumSeq(sample_values) \div Len(sample_values)
              cropped == Crop(image, top, bottom, left, right)
              detected == detect_text_padding(cropped, border_gray_value)
              padding == detected[1]
              crop_amounts == detected[2]
              ch == Len(cropped)
              cw == Len(cropped[1])
              recropped ==
                  IF /\ ~include_text
                     /\ ch - crop_amounts[1] - crop_amounts[2] > 0
                     /\ cw - crop_amounts[3] - crop_amounts[4] > 0
                  THEN Crop(cropped, crop_amounts[1], ch - crop_amounts[2] - 1,
                            crop_amounts[3], cw - crop_amounts[4] - 1)
                  ELSE cropped
              pad(k) == IF include_text THEN Max(border_px, padding[k]) ELSE border_px
              border_color == border_gray_value
          IN  CopyMakeBorder(recropped, pad(1), pad(2), pad(3), pad(4), border_color)

\* Content regions: one or two rows and columns of dark, mid and bright pixels.
Contents ==
    UNION { [1..ch -> [1..cw -> { 5, 128, 250 }]] : ch \in 1..2, cw \in 1..2 }

\* The image made of a border of colour b, t pixels thick, around content.
Bordered(b, t, content) ==
    LET ch == Len(content)
        cw == Len(content[1])
    IN  [i \in 1..(ch + 2 * t) |->
            [j \in 1..(cw + 2 * t) |->
                IF i - t \in 1..ch /\ j - t \in 1..cw THEN content[i - t][j - t] ELSE b]]

\* A call of trim_and_add_border on the image.
TrimCall ==
    /\ tb_result = None
    /\ tb_result' = Some(trim_and_add_border(tb_image.pixels, tb_border_px,
                                             uniformity_threshold, tb_include_text))
    /\ UNCHANGED <<vars, tb_image, tb_border_px, tb_include_text,
                   bp_vars, rr_vars, tg_vars, ub_vars, hd_vars, pa_vars, ir_vars, tm_vars>>

\* The image is kept with the border colour, border thickness and content
\* region it was made of.
InitTrim ==
    /\ PipeIdle
    /\ \E b \in { 0, 255 }, t \in 1..MaxBorder, content \in Contents :
          tb_image = [pixels |-> Bordered(b, t, content), color |-> b,
                      thickness |-> t, content |-> content]
    /\ tb_border_px \in 0..MaxBorderPx
    /\ tb_include_text \in BOOLEAN
    /\ tb_result = None
    /\ BpIdle /\ RrIdle /\ TgIdle /\ UbIdle /\ HdIdle /\ PaIdle /\ IrIdle /\ TmIdle

NextTrim == TrimCall

SpecTrim == InitTrim /\ [][NextTrim]_<<vars, aux_vars>>

\* the result has the size of the content region plus border_px on each side
SizeIsContentPlusBorder ==
    /\ Len(tb_result[1]) = Len(tb_image.content) + 2 * tb_border_px
    /\ Len(tb_result[1][1]) = Len(tb_image.content[1]) + 2 * tb_border_px

\* every pixel of the result's outermost ring has the border colour
RingIsBorderColour ==
    LET out == tb_result[1]
        h == Len(out)
        w == Len(out[1])
    IN  \A i \in 1..h, j \in 1..w :
            (i \in { 1, h } \/ j \in { 1, w }) => out[i][j] = tb_image.color

\* the first and last rows and columns of the content region, taken across
\* the whole image, each have a standard deviation above the threshold
EdgesStandOut ==
    LET px == tb_image.pixels
        t == tb_image.thickness
        h == Len(px)
        w == Len(px[1])
        Column(j) == [i \in 1..h |-> px[i][j]]
    IN  /\ StdAbove(px[t + 1], 10) /\ StdAbove(px[h - t], 10)
        /\ StdAbove(Column(t + 1), 10) /\ StdAbove(Column(w - t), 10)

\* C15 as stated: for every bordered image, every border_px >= 0 and every
\* border thickness, the result has the content's size plus 2 * border_px
\* on each axis and an outermost ring of the border colour.
C15_SizeAndRing ==
    tb_result # None => (SizeIsContentPlusBorder /\ RingIsBorderColour)

\* C15 amended: the size holds when the outermost rows and columns of the
\* content region stand out from the border (standard deviation across the
\* image above uniformity_threshold), and the ring has the border colour
\* when, in addition, border_px >= 1.
C15_SizeAndRingWhenEdgesStandOut ==
    (tb_result # None /\ EdgesStandOut) =>
        /\ SizeIsContentPlusBorder
        /\ tb_border_px >= 1 => RingIsBorderColour

\* a thick border has been trimmed and a thinner one added
C15_Witness ==
    /\ tb_result # None
    /\ EdgesStandOut
    /\ tb_image.thickness = 2
    /\ tb_border_px = 1
    /\ Len(tb_result[1]) < Len(tb_image.pixels)
    /\ RingIsBorderColour

(***************************************************************************)
(* detect_almost_uniform_borders (extract.py) on single-channel frames.    *)
(***************************************************************************)
\* the defaults of threshold and pillarbox_threshold, and the bound on the
\* brightest pixel of a pillarbox or letterbox bar
BorderStdThreshold == 5
pillarbox_threshold == 1
BlackMax == 3

\* 3 x 3 frames of black, nearly black and white pixels
BorderFrames == [1..3 -> [1..3 -> { 0, 4, 255 }]]

\* the pixels of a two-dimensional array, row by row
Flatten(region) ==
    [k \in 1..(Len(region) * Len(region[1])) |->
        region[1 + ((k - 1) \div Len(region[1]))][1 + ((k - 1) % Len(region[1]))]]

\* np.max
MaxOf(values) ==
    CHOOSE m \in { values[i] : i \in 1..Len(values) } :
        \A i \in 1..Len(values) : values[i] <= m

\* detect_almost_uniform_borders without the test that the bars are black
detect_almost_uniform_borders_any_colour(gray_frame, border_width, threshold, pb_threshold) ==
    LET h == Len(gray_frame)
        w == Len(gray_frame[1])
        left_border == Flatten(Crop(gray_frame, 0, h - 1, 0, border_width - 1))
        right_border == Flatten(Crop(gray_frame, 0, h - 1, w - border_width, w - 1))
        top_border == Flatten(Crop(gray_frame, 0, border_width - 1, 0, w - 1))
        bottom_border == Flatten(Crop(gray_frame, h - border_width, h - 1, 0, w - 1))
    IN  \/ /\ ~StdAbove(left_border, threshold) /\ ~StdAbove(right_border, threshold)
           /\ ~StdAbove(top_border, threshold) /\ ~StdAbove(bottom_border, threshold)
        \/ ~StdAbove(left_border, pb_threshold) /\ ~StdAbove(right_border, pb_threshold)
        \/ ~StdAbove(top_border, pb_threshold) /\ ~StdAbove(bottom_border, pb_threshold)

\* detect_almost_uniform_borders
detect_almost_uniform_borders(gray_frame, border_width, threshold, pb_threshold) ==
    LET h == Len(gray_frame)
        w == Len(gray_frame[1])
        left_border == Flatten(Crop(gray_frame, 0, h - 1, 0, border_width - 1))
        right_border == Flatten(Crop(gray_frame, 0, h - 1, w - border_width, w - 1))
        top_border == Flatten(Crop(gray_frame, 0, border_width - 1, 0, w - 1))
        bottom_border == Flatten(Crop(gray_frame, h - border_width, h - 1, 0, w - 1))
        all_four_uniform ==
            /\ ~StdAbove(left_border, threshold) /\ ~StdAbove(right_border, threshold)
            /\ ~StdAbove(top_border, threshold) /\ ~StdAbove(bottom_border, threshold)
        pillarbox ==
            ~StdAbove(left_border, pb_threshold) /\ ~StdAbove(right_border, pb_threshold)
        letterbox ==
            ~StdAbove(top_border, pb_threshold) /\ ~StdAbove(bottom_border, pb_threshold)
    IN  IF all_four_uniform THEN TRUE
        ELSE IF pillarbox /\ MaxOf(left_border) < BlackMax /\ MaxOf(right_border) < BlackMax
        THEN TRUE
        ELSE IF letterbox /\ MaxOf(top_border) < BlackMax /\ MaxOf(bottom_border) < BlackMax
        THEN TRUE
        ELSE FALSE

\* A call of detect_almost_uniform_borders with border_width = 1.
DetectBordersCall ==
    /\ ub_result = None
    /\ ub_result' = Some(detect_almost_uniform_borders(ub_frame, 1, BorderStdThreshold,
                                                       pillarbox_threshold))
    /\ UNCHANGED <<vars, ub_frame,
                   bp_vars, rr_vars, tg_vars, tb_vars, hd_vars, pa_vars, ir_vars, tm_vars>>

InitBorders ==
    /\ PipeIdle
    /\ ub_frame \in BorderFrames
    /\ ub_result = None
    /\ BpIdle /\ RrIdle /\ TgIdle /\ TbIdle /\ HdIdle /\ PaIdle /\ IrIdle /\ TmIdle

NextBorders == DetectBordersCall

SpecBorders == InitBorders /\ [][NextBorders]_<<vars, aux_vars>>

\* the four border regions of the frame, one pixel wide
LeftRegion == [i \in 1..3 |-> ub_frame[i][1]]
RightRegion == [i \in 1..3 |-> ub_frame[i][3]]
TopRegion == ub_frame[1]
BottomRegion == ub_frame[3]
BorderRegions == { LeftRegion, RightRegion, TopRegion, BottomRegion }

\* the region holds high-variance content
Noisy(region) == StdAbove(region, 5)
\* the region is a black bar
BlackBar(region) == \A i \in 1..3 : region[i] < 3 /\ ~StdAbove(region, 1)
\* the four borders are solid black or solid white
SolidBorders ==
    \E colour \in { 0, 255 } : \A region \in BorderRegions : \A i \in 1..3 : region[i] = colour

\* C16 as stated: true for solid black or white borders, false once any
\* one of the four border regions holds high-variance content.
C16_FalseOnceAnyRegionNoisy ==
    ub_result # None =>
        /\ SolidBorders => ub_result[1] = TRUE
        /\ (\E region \in BorderRegions : Noisy(region)) => ub_result[1] = FALSE

\* C16 amended: true for solid black or white borders; false once any one
\* border region holds high-variance content, unless the left and right
\* regions are both black bars or the top and bottom regions are.
C16_FalseUnlessBlackBars ==
    ub_result # None =>
        /\ SolidBorders => ub_result[1] = TRUE
        /\ ( /\ \E region \in BorderRegions : Noisy(region)
             /\ ~(BlackBar(LeftRegion) /\ BlackBar(RightRegion))
             /\ ~(BlackBar(TopRegion) /\ BlackBar(BottomRegion)) )
           => ub_result[1] = FALSE

\* a frame with high-variance content in its top region only, and side
\* regions that are uniform but not black, has been rejected
C16_Witness ==
    /\ ub_result = Some(FALSE)
    /\ Noisy(TopRegion)
    /\ ~Noisy(LeftRegion) /\ ~Noisy(RightRegion) /\ ~Noisy(BottomRegion)

(***************************************************************************)
(* hash_difference (extract.py) on its own.                                *)
(***************************************************************************)
\* Hashes to compare: the palette of the scan, the complements of its
\* members, and two scattered patterns.
HashSamples ==
    HashPalette \cup { HashBits \ h : h \in HashPalette }
        \cup { { 1, 64 }, { i \in HashBits : i % 2 = 0 } }

\* A call of hash_difference on the two hashes.
HashDifferenceCall ==
    /\ hd_result = None
    /\ hd_result' = Some(hash_difference(hd_hash1, hd_hash2))
    /\ UNCHANGED <<vars, hd_hash1, hd_hash2,
                   bp_vars, rr_vars, tg_vars, tb_vars, ub_vars, pa_vars, ir_vars, tm_vars>>

InitHash ==
    /\ PipeIdle
    /\ hd_hash1 \in HashSamples
    /\ hd_hash2 \in HashSamples
    /\ hd_result = None
    /\ BpIdle /\ RrIdle /\ TgIdle /\ TbIdle /\ UbIdle /\ PaIdle /\ IrIdle /\ TmIdle

NextHash == HashDifferenceCall

SpecHash == InitHash /\ [][NextHash]_<<vars, aux_vars>>

\* C17: hash_difference is the Hamming distance of two 64-bit hashes: an
\* integer in 0..64 equal to the number of bit positions where they differ,
\* 0 for equal hashes, 64 for complementary ones, and the same in both
\* argument orders.
C17_HammingDistance ==
    hd_result # None =>
        LET d == hd_result[1]
        IN  /\ d \in 0..64
            /\ d = Cardinality({ i \in 1..64 : (i \in hd_hash1) # (i \in hd_hash2) })
            /\ hd_hash1 = hd_hash2 => d = 0
            /\ d = hash_difference(hd_hash2, hd_hash1)
            /\ hd_hash2 = (1..64) \ hd_hash1 => d = 64

\* two complementary hashes, neither empty, have been compared
C17_Witness ==
    /\ hd_result = Some(64)
    /\ hd_hash1 # {} /\ hd_hash2 # {}

(***************************************************************************)
(* poll_for_assets (immich.py).  The list of assets a poll returns is      *)
(* modelled by its length; time is in seconds.                             *)
(***************************************************************************)
\* bound: number of assets a poll can return
MaxAssets == 3

PollInterval == 5
StablePolls == 4

\* One pass through the loop body, from the request to the return or to
\* the sleep: the request takes no time or one interval and returns n
\* assets (a response that is not a dict counts as none).
PaPoll ==
    /\ pa_pc = "poll"
    /\ \E n \in 0..MaxAssets, took \in { 0, PollInterval } :
          LET now == pa_clock + took
              stable == IF n = pa_prev_count THEN pa_stable_polls + 1 ELSE 0
          IN  /\ pa_clock' = now
              /\ pa_assets' = Some(n)
              /\ pa_counts' = Append(pa_counts, n)
              /\ IF n >= pa_expected
                 THEN /\ pa_pc' = "returned"
                      /\ UNCHANGED <<pa_prev_count, pa_stable_polls>>
                 ELSE IF n = pa_prev_count /\ stable >= StablePolls
                 THEN /\ pa_pc' = "returned"
                      /\ pa_stable_polls' = stable
                      /\ UNCHANGED pa_prev_count
                 ELSE /\ pa_stable_polls' = stable
                      /\ pa_prev_count' = n
                      /\ pa_pc' = IF now >= pa_deadline THEN "returned" ELSE "sleep"
    /\ UNCHANGED <<vars, pa_expected, pa_timeout, pa_deadline, pa_sleeps, pa_exc,
                   bp_vars, rr_vars, tg_vars, tb_vars, ub_vars, hd_vars, ir_vars, tm_vars>>

\* immich_request raises: the exception leaves poll_for_assets.
PaRequestRaises ==
    /\ pa_pc = "poll"
    /\ pa_exc' = Some("immich_request raised")
    /\ pa_pc' = "raised"
    /\ UNCHANGED <<vars, pa_expected, pa_timeout, pa_clock, pa_deadline, pa_prev_count,
                   pa_stable_polls, pa_assets, pa_counts, pa_sleeps,
                   bp_vars, rr_vars, tg_vars, tb_vars, ub_vars, hd_vars, ir_vars, tm_vars>>

\* time.sleep(5)
PaSleep ==
    /\ pa_pc = "sleep"
    /\ pa_clock' = pa_clock + PollInterval
    /\ pa_sleeps' = pa_sleeps + 1
    /\ pa_pc' = "poll"
    /\ UNCHANGED <<vars, pa_expected, pa_timeout, pa_deadline, pa_prev_count,
                   pa_stable_polls, pa_assets, pa_counts, pa_exc,
                   bp_vars, rr_vars, tg_vars, tb_vars, ub_vars, hd_vars, ir_vars, tm_vars>>

\* The call: deadline = time.monotonic() + timeout, with the clock at 0.
InitPoll ==
    /\ PipeIdle
    /\ pa_pc = "poll"
    /\ pa_expected \in { 1, MaxAssets }
    /\ pa_timeout \in { 0, 10, 30 }
    /\ pa_clock = 0
    /\ pa_deadline = pa_timeout
    /\ pa_prev_count = 0
    /\ pa_stable_polls = 0
    /\ pa_assets = None
    /\ pa_counts = <<>>
    /\ pa_sleeps = 0
    /\ pa_exc = None
    /\ BpIdle /\ RrIdle /\ TgIdle /\ TbIdle /\ UbIdle /\ HdIdle /\ IrIdle /\ TmIdle

NextPoll ==
    \/ PaPoll
    \/ PaRequestRaises
    \/ PaSleep

SpecPoll == InitPoll /\ [][NextPoll]_<<vars, aux_vars>>

\* the last four polls returned the same count
FourEqualPolls ==
    /\ Len(pa_counts) >= 4
    /\ \A i \in (Len(pa_counts) - 3)..Len(pa_counts) : pa_counts[i] = pa_counts[Len(pa_counts)]

\* C18: poll_for_assets polls no further once four consecutive polls have
\* returned the same count: it has then returned the assets of the latest
\* poll.
C18_ReturnsAfterFourEqualPolls ==
    FourEqualPolls =>
        /\ pa_pc = "returned"
        /\ pa_assets = Some(pa_counts[Len(pa_counts)])

(***************************************************************************)
(* immich_request (immich.py).                                             *)
(***************************************************************************)
\* bound: the argument retries
MaxRetries == 4

\* the exception classes of the except clause
ConnectionErrors == { "URLError", "ConnectionRefusedError", "TimeoutError" }

\* urlopen and the read succeed: the body, parsed, or None for an empty
\* body, is returned.
IrSuccess ==
    /\ ir_pc = "attempt"
    /\ \E content \in { "json", "empty" } :
          /\ ir_calls' = Append(ir_calls, "ok")
          /\ ir_result' = Some(<<"returned", content>>)
    /\ ir_pc' = "returned"
    /\ UNCHANGED <<vars, ir_retries, ir_attempt, ir_last_error, ir_waits,
                   bp_vars, rr_vars, tg_vars, tb_vars, ub_vars, hd_vars, pa_vars, tm_vars>>

\* The attempt raises an exception the except clause catches: it is kept
\* in last_error; a sleep follows unless this was the last attempt, after
\* which the loop ends and last_error is raised.
IrConnectionError ==
    /\ ir_pc = "attempt"
    /\ \E e \in ConnectionErrors :
          /\ ir_calls' = Append(ir_calls, e)
          /\ ir_last_error' = Some(<<e, ir_attempt>>)
          /\ IF ir_attempt < ir_retries - 1
             THEN ir_pc' = "sleep" /\ UNCHANGED ir_result
             ELSE ir_pc' = "raised" /\ ir_result' = Some(<<"raised", <<e, ir_attempt>>>>)
    /\ UNCHANGED <<vars, ir_retries, ir_attempt, ir_waits,
                   bp_vars, rr_vars, tg_vars, tb_vars, ub_vars, hd_vars, pa_vars, tm_vars>>

\* The attempt raises any other exception (json.loads on a malformed
\* body): it leaves immich_request at once.
IrOtherError ==
    /\ ir_pc = "attempt"
    /\ ir_calls' = Append(ir_calls, "ValueError")
    /\ ir_result' = Some(<<"raised", <<"ValueError", ir_attempt>>>>)
    /\ ir_pc' = "raised"
    /\ UNCHANGED <<vars, ir_retries, ir_attempt, ir_last_error, ir_waits,
                   bp_vars, rr_vars, tg_vars, tb_vars, ub_vars, hd_vars, pa_vars, tm_vars>>

\* the sleep with a wait of attempt + 1 seconds
IrSleepLinear ==
    /\ ir_pc = "sleep"
    /\ ir_waits' = Append(ir_waits, ir_attempt + 1)
    /\ ir_attempt' = ir_attempt + 1
    /\ ir_pc' = "attempt"
    /\ UNCHANGED <<vars, ir_retries, ir_last_error, ir_calls, ir_result,
                   bp_vars, rr_vars, tg_vars, tb_vars, ub_vars, hd_vars, pa_vars, tm_vars>>

\* wait = 2 ** attempt; time.sleep(wait); the loop takes the next attempt.
IrSleep ==
    /\ ir_pc = "sleep"
    /\ ir_waits' = Append(ir_waits, 2 ^ ir_attempt)
    /\ ir_attempt' = ir_attempt + 1
    /\ ir_pc' = "attempt"
    /\ UNCHANGED <<vars, ir_retries, ir_last_error, ir_calls, ir_result,
                   bp_vars, rr_vars, tg_vars, tb_vars, ub_vars, hd_vars, pa_vars, tm_vars>>

InitRequest ==
    /\ PipeIdle
    /\ ir_pc = "attempt"
    /\ ir_retries \in 1..MaxRetries
    /\ ir_attempt = 0
    /\ ir_last_error = None
    /\ ir_waits = <<>>
    /\ ir_calls = <<>>
    /\ ir_result = None
    /\ BpIdle /\ RrIdle /\ TgIdle /\ TbIdle /\ UbIdle /\ HdIdle /\ PaIdle /\ TmIdle

NextRequest ==
    \/ IrSuccess
    \/ IrConnectionError
    \/ IrOtherError
    \/ IrSleep

SpecRequest == InitRequest /\ [][NextRequest]_<<vars, aux_vars>>

SamplesPhotoFrame ==
    /\ pc = "scan_loop"
    /\ pc' = "scan_loop"
    /\ Len(sampled') = Len(sampled) + 1
    /\ IsPhotoFrame(sampled'[Len(sampled')])

C21_PhotoFrameIff ==
    (pc = "scan_loop" /\ sampled # <<>>) =>
        LET f == sampled[Len(sampled)]
            appended == cand_at # <<>> /\ cand_at[Len(cand_at)] = Len(sampled)
        IN  IF f.borders /\ ~f.near_uniform
            THEN prev_step_hash = Some(f.hash) /\ prev_photo_hash # None
            ELSE prev_photo_hash = None /\ prev_step_hash = None /\ ~appended

\* a photo frame that gave a candidate, then a near-uniform frame with
\* uniform borders, and then a frame without uniform borders
C21_Witness ==
    /\ pc = "scan_loop"
    /\ Len(sampled) = 3
    /\ cand_at = <<1>>
    /\ sampled[2].borders /\ sampled[2].near_uniform
    /\ ~sampled[3].borders
    /\ prev_photo_hash = None /\ prev_step_hash = None

\* C28: at every iteration boundary of the scan loop prev_photo_hash is
\* none if and only if prev_step_hash is none.
C28_HashesNoneTogether ==
    pc = "scan_loop" => (prev_photo_hash = None <=> prev_step_hash = None)

\* both hashes set on the first photo frame of a run, cleared by a video
\* frame, and set again, to different values, by the frames of a second run
C28_Witness ==
    /\ pc = "scan_loop"
    /\ Len(sampled) = 4
    /\ cand_at = <<1, 3>>
    /\ ~sampled[2].borders
    /\ prev_photo_hash # None /\ prev_step_hash # None
    /\ prev_photo_hash # prev_step_hash

(***************************************************************************)
(* The frame an extraction pass validates and saves.                       *)
(***************************************************************************)
\* C27: the image saved for a candidate is the frame decoded for that
\* candidate's own timestamp: the n-th image written is the frame of the
\* candidate of the n-th "saved" line of the log.
C27_OwnFrame ==
    \A k \in 1..Len(log) :
        log[k].result = "saved" =>
            written[Cardinality({ j \in 1..k : log[j].result = "saved" })].frame_of = k

(***************************************************************************)
(* The last test of _find_text_gap_from_edge.                              *)
(***************************************************************************)
\* C30: every non-zero result (gap_width, dense_start) has
\* min_gap_px <= gap_width < dense_start and a density strictly between 0
\* and content_fraction at the index just before the gap; and whenever the
\* profile passes the gap-width test the result is non-zero, so the test
\* for sparse content never decides the result.
C30_SparseTestNeverDecides ==
    tg_result # None =>
        LET gap_width == tg_result[1][1]
            dense_start == tg_result[1][2]
        IN  /\ tg_result[1] # <<0, 0>> =>
                  /\ tg_min_gap <= gap_width
                  /\ gap_width < dense_start
                  /\ LET before == tg_density[(dense_start - gap_width - 1) + 1]
                     IN  before[1] > 0 /\ before[1] * 10 < 3 * before[2]
            /\ ( /\ DenseIndexes # {}
                 /\ FirstDenseIndex >= tg_min_gap
                 /\ TextIndexes # {}
                 /\ FirstDenseIndex - GapStartIndex >= tg_min_gap )
                  => tg_result[1] # <<0, 0>>

\* a profile whose only sparse entry is the one just before the gap
C30_Witness ==
    /\ tg_result = Some(<<2, 3>>)
    /\ tg_min_gap = 2
    /\ tg_density[1] = <<1, 50>>
    /\ Len(tg_density) = 5

(***************************************************************************)
(* transcode_lowres with its scheduling: the probe and the transcode, up   *)
(* to the return of the low-resolution path.  The two listener threads and *)
(* the calling thread keep running; an encoder exits when it exits.        *)
(***************************************************************************)
NextTranscode ==
    \/ Probe
    \/ TranscodeCall
    \/ Popen
    \/ \E i \in Procs : ListenerLine(i)
    \/ \E i \in Procs : ProcExit(i)
    \/ \E i \in Procs : ListenerEnd(i)
    \/ PollIter
    \/ PollExit
    \/ Concat

SpecTranscode ==
    /\ Init
    /\ [][NextTranscode]_vars
    /\ \A i \in Procs : WF_vars(ListenerLine(i)) /\ WF_vars(ListenerEnd(i))
    /\ WF_vars(PollExit)
    /\ WF_vars(Concat)

\* listener i has taken a line from its encoder in this step
ListenerStepped(i) == lines'[i] = lines[i] + 1

\* C25: while the two listeners and the polling loop run, slot i of the
\* progress list changes only in a step of listener i, such a step leaves
\* the other slot as it was, and a step of the polling loop (it sets
\* overall_pct) leaves the list as it was.
C25_SlotsPartitioned ==
    [][ (pc = "tl_poll" /\ pc' = "tl_poll") =>
          /\ \A i \in Procs :
                progress'[i] # progress[i] =>
                    /\ listener[i] = "alive"
                    /\ ListenerStepped(i)
                    /\ \A j \in Procs \ { i } :
                          progress'[j] = progress[j] /\ ~ListenerStepped(j)
          /\ overall_pct' # overall_pct => progress' = progress
      ]_vars

\* both listeners have stored a percentage, different ones, and the polling
\* loop has displayed their mean
C25_Witness ==
    /\ pc = "tl_poll"
    /\ progress = <<50, 100>>
    /\ overall_pct = 75

\* C26: the polling loop is left only when both listeners have ended; the
\* concat step is reached and run only with both listeners ended and both
\* encoders exited with code 0; and once both encoders have exited,
\* transcode_lowres returns or raises.
C26_PollThenConcat ==
    /\ [][ /\ (pc = "tl_poll" /\ pc' # "tl_poll") =>
                \A i \in Procs : listener[i] = "ended"
           /\ (pc' = "tl_concat" \/ concat_runs' # concat_runs) =>
                \A i \in Procs : listener[i] = "ended" /\ proc[i] = "exit0"
         ]_vars
    /\ (pc = "tl_poll" /\ \A i \in Procs : proc[i] \in { "exit0", "exit1" })
          ~> (pc \notin { "tl_poll", "tl_concat" })

\* transcode_lowres has returned after the concat of two encodes that
\* ended with code 0
C26_Witness ==
    /\ pc = "scan_call"
    /\ concat_runs = 1
    /\ phases = <<"transcode_call", "transcode_return">>

(***************************************************************************)
(* The loop of scan_for_photos on frame positions and time labels, with    *)
(* every sampled frame taken as a candidate, and order_assets (immich.py)  *)
(* on the files saved under those labels.  The calling thread keeps        *)
(* running.                                                                *)
(***************************************************************************)
\* CAP_PROP_FPS of the low-resolution file: unknown (0), 10/253, 100/97, 3,
\* 10 and 30 frames a second
FpsSet == { <<0, 1>>, <<10, 253>>, <<100, 97>>, <<3, 1>>, <<10, 1>>, <<30, 1>> }
\* step_time: 0.01, 0.3 and 0.99 seconds
StepSet == { <<1, 100>>, <<3, 10>>, <<99, 100>> }

\* int(s) of a string of decimal digits
RECURSIVE StrInt(_)
StrInt(s) ==
    IF s = <<>> THEN 0
    ELSE StrInt(SubSeq(s, 1, Len(s) - 1)) * 10
            + (CHOOSE d \in 0..9 : DigitChar(d) = s[Len(s)])

\* parse_video_timestamp with the seconds read as a whole number
ParseWholeSeconds(filename) ==
    LET n == Len(filename)
        Digits(t) == t # <<>> /\ \A k \in 1..Len(t) : t[k] \in { DigitChar(d) : d \in 0..9 }
        Dot(t) == { k \in 2..(Len(t) - 1) :
                      /\ t[k] = "."
                      /\ Digits(SubSeq(t, 1, k - 1))
                      /\ Digits(SubSeq(t, k + 1, Len(t))) }
        Matches == { um \in (1..n) \X (1..n) :
                       /\ um[1] < um[2] /\ um[2] < n - 4
                       /\ filename[um[1]] = "_" /\ filename[um[2]] = "m"
                       /\ Digits(SubSeq(filename, um[1] + 1, um[2] - 1))
                       /\ LET t == SubSeq(filename, um[2] + 1, n - 5)
                          IN  Digits(t) \/ Dot(t) # {} }
        Whole(t, dots) ==
            IF dots = {} THEN StrInt(t)
            ELSE StrInt(SubSeq(t, 1, (CHOOSE k \in dots : TRUE) - 1))
        Value(matches) ==
            IF matches = {} THEN <<>>
            ELSE LET um == CHOOSE x \in matches : \A y \in matches : x[1] <= y[1]
                     t == SubSeq(filename, um[2] + 1, n - 5)
                 IN  <<<<StrInt(SubSeq(filename, um[1] + 1, um[2] - 1)) * 60
                             + Whole(t, Dot(t)), 1>>>>
    IN  IF n < 5 \/ SubSeq(filename, n - 4, n) # <<"s", ".", "j", "p", "g">>
        THEN <<>>
        ELSE Value(Matches)

\* parse_video_timestamp: re.search(r"_(\d+)m(\d+(?:\.\d+)?)s\.jpg$", filename),
\* None without a match, else int(group 1) * 60 + float(group 2)
parse_video_timestamp(filename) ==
    LET n == Len(filename)
        Digits(t) == t # <<>> /\ \A k \in 1..Len(t) : t[k] \in { DigitChar(d) : d \in 0..9 }
        \* positions of a "." that splits t into digits "." digits
        Dot(t) == { k \in 2..(Len(t) - 1) :
                      /\ t[k] = "."
                      /\ Digits(SubSeq(t, 1, k - 1))
                      /\ Digits(SubSeq(t, k + 1, Len(t))) }
        \* (position of "_", position of "m") of a match that ends the name
        Matches == { um \in (1..n) \X (1..n) :
                       /\ um[1] < um[2] /\ um[2] < n - 4
                       /\ filename[um[1]] = "_" /\ filename[um[2]] = "m"
                       /\ Digits(SubSeq(filename, um[1] + 1, um[2] - 1))
                       /\ LET t == SubSeq(filename, um[2] + 1, n - 5)
                          IN  Digits(t) \/ Dot(t) # {} }
        RECURSIVE Pow10(_)
        Pow10(k) == IF k = 0 THEN 1 ELSE 10 * Pow10(k - 1)
        \* float(group 2) as numerator and denominator
        Float(t, dots) ==
            IF dots = {} THEN <<StrInt(t), 1>>
            ELSE LET k == CHOOSE k \in dots : TRUE
                 IN  <<StrInt(SubSeq(t, 1, k - 1)) * Pow10(Len(t) - k)
                           + StrInt(SubSeq(t, k + 1, Len(t))), Pow10(Len(t) - k)>>
        Total(minutes, seconds) == <<minutes * 60 * seconds[2] + seconds[1], seconds[2]>>
        \* the leftmost match
        Value(matches) ==
            IF matches = {} THEN None
            ELSE LET um == CHOOSE x \in matches : \A y \in matches : x[1] <= y[1]
                     t == SubSeq(filename, um[2] + 1, n - 5)
                 IN  Some(Total(StrInt(SubSeq(filename, um[1] + 1, um[2] - 1)),
                                Float(t, Dot(t))))
    IN  IF n < 5 \/ SubSeq(filename, n - 4, n) # <<"s", ".", "j", "p", "g">>
        THEN None
        ELSE Value(Matches)

\* photos.sort(key=lambda a: parse_video_timestamp(...) or 0): a stable sort,
\* each path kept with its key
RECURSIVE SortByKey(_)
SortByKey(photos) ==
    LET Key(path) == LET parsed == parse_video_timestamp(path)
                     IN  IF parsed = None THEN <<0, 1>> ELSE parsed[1]
        \* the entry goes after the entries whose key is not above its own
        Insert(front, entry) ==
            LET k == Cardinality({ i \in 1..Len(front) : RatLeq(front[i].key, entry.key) })
            IN  SubSeq(front, 1, k) \o <<entry>> \o SubSeq(front, k + 1, Len(front))
    IN  IF photos = <<>> THEN <<>>
        ELSE Insert(SortByKey(SubSeq(photos, 1, Len(photos) - 1)),
                    [originalPath |-> photos[Len(photos)],
                     key |-> Key(photos[Len(photos)])])

\* order_assets, an asset being its originalPath: the videos, then the
\* photos sorted by timestamp
order_assets(assets) ==
    LET Ends(path, ext) ==
            /\ Len(path) >= Len(ext)
            /\ [k \in 1..Len(ext) |-> Lower(path[Len(path) - Len(ext) + k])] = ext
        IsVideo(path) ==
            \E ext \in { <<".", "m", "k", "v">>, <<".", "m", "p", "4">>, <<".", "a", "v", "i">>,
                         <<".", "w", "e", "b", "m">>, <<".", "m", "o", "v">> } : Ends(path, ext)
        IsPhoto(path) == ~IsVideo(path)
        videos == SelectSeq(assets, IsVideo)
        photos == SelectSeq(assets, IsPhoto)
    IN  [i \in 1..Len(videos) |-> [originalPath |-> videos[i], key |-> None]]
            \o SortByKey(photos)

\* The call of scan_for_photos up to the loop.
TmCall ==
    /\ tm_pc = "call"
    /\ tm_frame_step' = FrameStep(tm_fps, tm_step_time)
    /\ tm_pos' = 0
    /\ tm_cands' = <<>>
    /\ tm_pc' = "loop"
    /\ UNCHANGED <<vars, tm_fps, tm_step_time, tm_total_frames, tm_ordered,
                   bp_vars, rr_vars, tg_vars, tb_vars, ub_vars, hd_vars, pa_vars, ir_vars>>

\* One iteration on a frame that cap.read() returned and that is appended.
TmSample ==
    /\ tm_pc = "loop"
    /\ tm_pos < tm_total_frames
    /\ LET current_frame == tm_pos
           timestamp_sec == TimestampSec(current_frame, tm_fps)
           time_str == TimeStr(timestamp_sec)
       IN  /\ tm_cands' = AppendCandidate(tm_cands,
                              [current_frame |-> current_frame,
                               timestamp_sec |-> timestamp_sec, time_str |-> time_str])
           /\ tm_pos' = NextPos(current_frame, tm_frame_step)
    /\ UNCHANGED <<vars, tm_pc, tm_fps, tm_step_time, tm_total_frames, tm_frame_step,
                   tm_ordered,
                   bp_vars, rr_vars, tg_vars, tb_vars, ub_vars, hd_vars, pa_vars, ir_vars>>

\* current_frame >= total_frames: break, return photo_timestamps.
TmEnd ==
    /\ tm_pc = "loop"
    /\ tm_pos >= tm_total_frames
    /\ tm_pc' = "returned"
    /\ UNCHANGED <<vars, tm_fps, tm_step_time, tm_total_frames, tm_frame_step, tm_pos,
                   tm_cands, tm_ordered,
                   bp_vars, rr_vars, tg_vars, tb_vars, ub_vars, hd_vars, pa_vars, ir_vars>>

\* cap.read() returns ret = False: break, return photo_timestamps.
TmReadFail ==
    /\ tm_pc = "loop"
    /\ tm_pos < tm_total_frames
    /\ tm_pc' = "returned"
    /\ UNCHANGED <<vars, tm_fps, tm_step_time, tm_total_frames, tm_frame_step, tm_pos,
                   tm_cands, tm_ordered,
                   bp_vars, rr_vars, tg_vars, tb_vars, ub_vars, hd_vars, pa_vars, ir_vars>>

\* order_assets on the assets of the output folder: the files saved under
\* the candidates' labels, in any order, with or without the video.
TmOrder ==
    /\ tm_pc = "returned"
    /\ LET name(i) == FileName(tm_cands[i].time_str)
           \* the candidates that are the first with their file name
           firsts == { i \in 1..Len(tm_cands) : \A j \in 1..(i - 1) : name(j) # name(i) }
           n == Cardinality(firsts)
           file(k) == name(CHOOSE i \in firsts : Cardinality({ j \in firsts : j <= i }) = k)
       IN  \E p \in Permutations(1..n), with_video \in BOOLEAN :
              /\ tm_ordered' = Some(order_assets(
                     [k \in 1..n |-> file(p[k])] \o (IF with_video
                                THEN <<FilenameSafe \o <<".", "m", "k", "v">>>>
                                ELSE <<>>)))
    /\ tm_pc' = "ordered"
    /\ UNCHANGED <<vars, tm_fps, tm_step_time, tm_total_frames, tm_frame_step, tm_pos,
                   tm_cands,
                   bp_vars, rr_vars, tg_vars, tb_vars, ub_vars, hd_vars, pa_vars, ir_vars>>

InitTiming ==
    /\ PipeIdle
    /\ tm_pc = "call"
    /\ tm_fps \in FpsSet
    /\ tm_step_time \in StepSet
    /\ tm_total_frames \in 0..MaxFrames
    /\ tm_frame_step = 0
    /\ tm_pos = 0
    /\ tm_cands = <<>>
    /\ tm_ordered = None
    /\ BpIdle /\ RrIdle /\ TgIdle /\ TbIdle /\ UbIdle /\ HdIdle /\ PaIdle /\ IrIdle

NextTiming == TmCall \/ TmSample \/ TmEnd \/ TmReadFail \/ TmOrder

SpecTiming ==
    /\ InitTiming
    /\ [][NextTiming]_<<vars, aux_vars>>
    /\ WF_<<vars, aux_vars>>(TmCall \/ TmSample \/ TmEnd \/ TmReadFail)

\* lowres_fps * step_time as numerator and denominator
StepProduct == <<tm_fps[1] * tm_step_time[1], tm_fps[2] * tm_step_time[2]>>

\* the scan has computed frame_step
StepKnown == tm_pc \in { "loop", "returned", "ordered" }

\* C22 as stated: the scan advances by lowres_fps * step_time rounded to the
\* nearest integer, and by 1 when that is below 1.
C22_RoundedStep ==
    StepKnown =>
        LET num == StepProduct[1]
            den == StepProduct[2]
            dist == IF tm_frame_step * den >= num
                    THEN tm_frame_step * den - num ELSE num - tm_frame_step * den
        IN  \/ tm_frame_step >= 1 /\ 2 * dist <= den
            \/ tm_frame_step = 1 /\ 2 * num <= den

\* C22, amended: the scan advances by lowres_fps * step_time truncated to
\* an integer, and by 1 when the product is below 1; every sample is that
\* many frames after the one before.
C22_TruncatedStep ==
    StepKnown =>
        LET num == StepProduct[1]
            den == StepProduct[2]
        IN  /\ IF num < den
               THEN tm_frame_step = 1
               ELSE tm_frame_step * den <= num /\ num < (tm_frame_step + 1) * den
            /\ \A i \in 1..Len(tm_cands) :
                  tm_cands[i].current_frame = (i - 1) * tm_frame_step
            /\ tm_pos = Len(tm_cands) * tm_frame_step

\* 3 frames a second and a step of 0.99 s: the product 2.97 is nearer to 3,
\* and the second sample is frame 2
C22_Witness ==
    /\ tm_fps = <<3, 1>>
    /\ tm_step_time = <<99, 100>>
    /\ Len(tm_cands) = 2
    /\ tm_cands[2].current_frame = 2

\* The label read back: its minutes, seconds and tenths, or None when it is
\* not digits "m" two digits "s", or digits "m" two digits "." a non-zero
\* digit "s".
LabelTriple(label) ==
    LET Digits(t) == t # <<>> /\ \A k \in 1..Len(t) : t[k] \in { DigitChar(d) : d \in 0..9 }
        ms == { k \in 1..Len(label) : label[k] = "m" }
    IN  IF Cardinality(ms) # 1 THEN None
        ELSE LET mi == CHOOSE k \in ms : TRUE
                 rest == SubSeq(label, mi + 3, Len(label))
             IN  IF /\ Digits(SubSeq(label, 1, mi - 1))
                    /\ Len(label) >= mi + 3
                    /\ Digits(SubSeq(label, mi + 1, mi + 2))
                    /\ \/ rest = <<"s">>
                       \/ /\ Len(rest) = 3 /\ rest[1] = "." /\ rest[3] = "s"
                          /\ rest[2] \in { DigitChar(d) : d \in 1..9 }
                 THEN Some(<<StrInt(SubSeq(label, 1, mi - 1)),
                             StrInt(SubSeq(label, mi + 1, mi + 2)),
                             IF rest = <<"s">> THEN 0 ELSE StrInt(<<rest[2]>>)>>)
                 ELSE None

\* C23: every time label is {minutes}m{seconds:02d}s with seconds in
\* 00..59, extended by .{tenths} exactly when the tenths digit of the
\* timestamp, truncated, is non-zero; the tenths digit is in 0..9; and
\* (minutes, seconds, tenths) never decreases from a sample to the next.
C23_TimeLabel ==
    /\ \A i \in 1..Len(tm_cands) :
          LET ts == tm_cands[i].timestamp_sec
              tr == LabelTriple(tm_cands[i].time_str)
          IN  /\ tr # None
              /\ tr[1][2] \in 0..59
              /\ tr[1][3] \in 0..9
              \* minutes, seconds and tenths are the timestamp cut to tenths
              /\ (tr[1][1] * 600 + tr[1][2] * 10 + tr[1][3]) * ts[2] <= 10 * ts[1]
              /\ 10 * ts[1] < (tr[1][1] * 600 + tr[1][2] * 10 + tr[1][3] + 1) * ts[2]
    /\ \A i \in 1..(Len(tm_cands) - 1) :
          LET a == LabelTriple(tm_cands[i].time_str)[1]
              b == LabelTriple(tm_cands[i + 1].time_str)[1]
          IN  \/ a[1] < b[1]
              \/ a[1] = b[1] /\ a[2] < b[2]
              \/ a[1] = b[1] /\ a[2] = b[2] /\ a[3] <= b[3]

\* labels without and with tenths, the fourth past the first minute
C23_Witness ==
    /\ tm_fps = <<10, 253>>
    /\ Len(tm_cands) = 4
    /\ tm_cands[1].time_str = <<"0", "m", "0", "0", "s">>
    /\ tm_cands[4].time_str = <<"1", "m", "1", "5", ".", "9", "s">>

\* C24: the frame position grows by at least 1 in every iteration; the loop
\* is left only by returning the candidates found so far, which is all it
\* can do once the position has reached the frame count; and the loop is
\* always left.
C24_ScanTerminates ==
    /\ [][ /\ (tm_pc = "loop" /\ tm_pc' = "loop") => tm_pos' >= tm_pos + 1
           /\ (tm_pc = "loop" /\ tm_pc' # "loop") =>
                 tm_pc' = "returned" /\ tm_cands' = tm_cands
           /\ (tm_pc = "loop" /\ tm_pos >= tm_total_frames) => tm_pc' = "returned"
         ]_<<vars, aux_vars>>
    /\ (tm_pc = "loop") ~> (tm_pc = "returned")

\* a scan with a frame rate of 0 has stepped frame by frame to the frame
\* count and returned its candidates
C24_Witness ==
    /\ tm_pc = "returned"
    /\ tm_fps = <<0, 1>>
    /\ tm_total_frames = 3
    /\ tm_pos = 3
    /\ Len(tm_cands) = 3

============================================================================
